---- MODULE Spec2Model ----
(***************************************************************************)
(* Turn orchestration of the TravIS python backend: the global rate        *)
(* limiter and response cache (config.py), the retrying / caching caller   *)
(* (optimized_agents.py) and the chat endpoint (api.py).                    *)
(*                                                                         *)
(* Time is a single integer clock `now`, counted in ticks of               *)
(* 1/TicksPerSecond second.  asyncio is cooperative: the code between two  *)
(* awaits runs atomically, so every action below is one such stretch.      *)
(* The clock advances when a coroutine is entered or resumed: an arrival   *)
(* comes some gap after the previous event, asyncio.sleep(d) resumes at or *)
(* after its deadline, a model invocation takes some time.                 *)
(***************************************************************************)
EXTENDS Integers, Sequences, FiniteSets, TLC

\* ---------------------------------------------------------------- bounds
TicksPerSecond == 2
MaxGap == 3
MaxLate == 1
MaxWaits == 5
MaxCalls == 2
MaxCacheOps == 3
MaxCancels == 3
MaxHistory == 12
MaxToolCalls == 3
MaxMessages == 12

\* ------------------------------------------------------- program constants
RATE_LIMIT_DELAY == 1
MAX_RETRIES == 3
RETRY_DELAY == 2
MAX_CONTEXT_LENGTH == 4000
MAX_CONVERSATION_HISTORY == 10
CACHE_TTL == 300

VARIABLES
    now,            \* the event loop's clock, in ticks
    last_request,   \* RateLimiter.last_request
    grants,         \* history: the values assigned to last_request, in order
    waiter,         \* the coroutines that only call rate_limiter.wait()
    response_cache, \* config.response_cache: key -> [response, timestamp]
    opt,            \* the run_with_optimization call in progress or just returned
    prev,           \* history: the run_with_optimization call before it
    ninv,           \* history: Runner.run invocations made so far
    ncalls,         \* history: run_with_optimization calls started so far
    conv,           \* the state dicts of the conversations, by conversation id
    saved,          \* the ids conversation_store holds
    nfresh,         \* the uuid4 conversation ids allocated so far
    turn,           \* the chat_endpoint coroutines
    lookup,         \* history: the last direct call on the response cache
    df,             \* TravelerTripData.df: the status column, by booking reference
    cancels,        \* history: the cancel_upcoming_trip_or_booking calls made
    tool,           \* the lookup_trip_data call in progress or just returned
    cm,             \* optimized_agents.context_manager, and the messages added since the last clear
    simple          \* the process that serves simple_api.chat_endpoint

rlVars == <<now, last_request, grants>>
optVars == <<response_cache, opt, prev, ninv, ncalls>>
chatVars == <<conv, saved, nfresh, turn>>
dataVars == <<lookup, df, cancels, tool, simple>>
vars == <<now, last_request, grants, waiter, response_cache, opt, prev, ninv, ncalls,
          conv, saved, nfresh, turn, lookup, df, cancels, tool, cm, simple>>

Max(a, b) == IF a >= b THEN a ELSE b

\* =========================================================== RateLimiter
\* self.delay, in ticks
Delay == RATE_LIMIT_DELAY * TicksPerSecond

\* time_since_last = now - self.last_request
TimeSinceLast(t, last) == t - last

MustSleepOff(t, last) == TimeSinceLast(t, last) < Delay - 1
\* if time_since_last < self.delay:
MustSleep(t, last) == TimeSinceLast(t, last) < Delay

\* the argument of asyncio.sleep(self.delay - time_since_last)
SleepTime(t, last) == Delay - TimeSinceLast(t, last)

GrantSkipped(t) == UNCHANGED <<last_request, grants>>
\* self.last_request = asyncio.get_event_loop().time()
Grant(t) ==
    /\ last_request' = t
    /\ grants' = Append(grants, t)

\* ------------------------------------------- clients that only call wait()
Waiters == {"w1", "w2"}
Gaps == 0..MaxGap
Lateness == 0..MaxLate

WaitsStarted == Len(grants) + Cardinality({w \in Waiters : waiter[w].pc = "sleeping"})

\* RateLimiter.wait() entered at time now + gap: up to the await, or to the
\* return when no sleep is needed.
WaitEnter(w, gap) ==
    LET t == now + gap IN
    /\ waiter[w].pc = "idle"
    /\ WaitsStarted < MaxWaits
    /\ now' = t
    /\ IF MustSleep(t, last_request)
       THEN /\ waiter' = [waiter EXCEPT ![w] = [pc |-> "sleeping", wake |-> t + SleepTime(t, last_request)]]
            /\ UNCHANGED <<last_request, grants>>
       ELSE /\ Grant(t)
            /\ UNCHANGED waiter
    /\ UNCHANGED <<optVars, chatVars, dataVars, cm>>

\* asyncio.sleep returns, at or after its deadline; wait() records the grant.
WaitWake(w, late) ==
    LET t == Max(now, waiter[w].wake) + late IN
    /\ waiter[w].pc = "sleeping"
    /\ now' = t
    /\ Grant(t)
    /\ waiter' = [waiter EXCEPT ![w] = [pc |-> "idle", wake |-> 0]]
    /\ UNCHANGED <<optVars, chatVars, dataVars, cm>>

\* ========================================================= ResponseCache
None == [kind |-> "None"]
TTL == CACHE_TTL * TicksPerSecond

FreshThroughTTL(entry, t) == t - entry.timestamp <= TTL
\* if time.time() - cached_data['timestamp'] < CACHE_TTL:
Fresh(entry, t) == t - entry.timestamp < TTL

Without(cache, key) == [k \in DOMAIN cache \ {key} |-> cache[k]]

\* what get_cached_response(key) returns at time t
GetCachedResponse(cache, key, t) ==
    IF key \in DOMAIN cache /\ Fresh(cache[key], t) THEN cache[key].response ELSE None

CacheAfterGetEvicting(cache, key, t) == Without(cache, key)
\* response_cache after get_cached_response(key) at time t: an expired entry
\* is deleted
CacheAfterGet(cache, key, t) ==
    IF key \in DOMAIN cache /\ ~Fresh(cache[key], t) THEN Without(cache, key) ELSE cache

\* response_cache after cache_response(key, response) at time t
CacheResponse(cache, key, response, t) ==
    (key :> [response |-> response, timestamp |-> t]) @@ cache

\* ---------------------------------- direct calls on the response cache
CacheKeys == {"k1", "k2"}
\* call gaps: at once, and around the TTL
CacheGaps == {0, 1, TTL - 1, TTL, TTL + 1}

\* cache_response(key, response) called at time now + gap
CachePut(key, gap) ==
    LET t == now + gap
        response == [kind |-> "Ok", inv |-> lookup.n]
    IN
    /\ lookup.n < MaxCacheOps
    /\ now' = t
    /\ response_cache' = CacheResponse(response_cache, key, response, t)
    /\ lookup' = [n |-> lookup.n + 1, kind |-> "put", key |-> key, at |-> t,
                  result |-> None, before |-> response_cache]
    /\ UNCHANGED <<last_request, grants, waiter, opt, prev, ninv, ncalls, chatVars, df, cancels, tool, cm, simple>>

\* get_cached_response(key) called at time now + gap
CacheGet(key, gap) ==
    LET t == now + gap IN
    /\ lookup.n < MaxCacheOps
    /\ now' = t
    /\ response_cache' = CacheAfterGet(response_cache, key, t)
    /\ lookup' = [n |-> lookup.n + 1, kind |-> "get", key |-> key, at |-> t,
                  result |-> GetCachedResponse(response_cache, key, t),
                  before |-> response_cache]
    /\ UNCHANGED <<last_request, grants, waiter, opt, prev, ninv, ncalls, chatVars, df, cancels, tool, cm, simple>>

\* ======================================================== OptimizedAgent
\* A string is its first MAX_CONTEXT_LENGTH characters (text), what follows
\* them (rest) and its length.
Text(x, n) == [text |-> x, rest |-> "", len |-> n]
Entry(x) == [role |-> "user", content |-> Text(x, 5)]

\* input_data[:MAX_CONTEXT_LENGTH] + "..."
Truncate(str) ==
    IF str.len > MAX_CONTEXT_LENGTH
    THEN [text |-> str.text, rest |-> "...", len |-> MAX_CONTEXT_LENGTH + 3]
    ELSE str

\* seq[-n:] for 0 < n
LastN(seq, n) == IF Len(seq) <= n THEN seq ELSE SubSeq(seq, Len(seq) - n + 1, Len(seq))

\* _optimize_input: a string is truncated; a list longer than
\* MAX_CONVERSATION_HISTORY keeps its first entry and its last N-1 and is
\* returned as it is; a shorter list has each entry's content truncated.
OptimizeInput(input) ==
    IF input.kind = "str" THEN [input EXCEPT !.str = Truncate(input.str)]
    ELSE IF Len(input.items) > MAX_CONVERSATION_HISTORY
         THEN [input EXCEPT !.items =
                   <<input.items[1]>> \o LastN(input.items, MAX_CONVERSATION_HISTORY - 1)]
         ELSE [input EXCEPT !.items = [i \in 1..Len(input.items) |->
                   [input.items[i] EXCEPT !.content = Truncate(input.items[i].content)]]]

\* _optimize_context: None stays None; otherwise a new context holding only
\* the essential fields, the others at their default.
OptimizeContext(context) ==
    IF context = None THEN None
    ELSE [context EXCEPT !.account_number = "default"]

\* _create_cache_key: the digest of str(input_data), str(context), the
\* agent's name and the model, all of the call's arguments as they were
\* passed.  The digest is taken to be collision free: a key is the tuple
\* it digests.
CreateCacheKey(input, context) ==
    [input |-> input, context |-> context,
     agent |-> "Triage Agent", model |-> "gpt-3.5-turbo"]

\* delay = config.RETRY_DELAY * (2 ** attempt), in ticks
BackoffDelay(attempt) == RETRY_DELAY * (2 ^ attempt) * TicksPerSecond

RetriesLeftOneMore(attempt, max_retries) == attempt < max_retries
\* if attempt < max_retries - 1:
RetriesLeft(attempt, max_retries) == attempt < max_retries - 1

\* _create_fallback_response
FallbackResponse ==
    [kind |-> "Fallback", final_output |-> "high demand apology",
     new_items |-> <<>>, to_input_list |-> <<>>]

\* the inputs and contexts of the calls explored
ListInput(seq) == [kind |-> "list", items |-> seq]
StrInput(str) == [kind |-> "str", str |-> str]
History(second) == <<Entry("m1"), Entry(second)>> \o [i \in 1..(MAX_CONVERSATION_HISTORY - 1) |-> Entry("m3")]
\* two histories of MAX_CONVERSATION_HISTORY + 1 entries that differ in the
\* second entry alone
OptInputs == {ListInput(History("m2")), ListInput(History("other"))}
Context(name, account) == [kind |-> "Context", passenger_name |-> name, account_number |-> account]
OptContexts == {None, Context("p1", "a1"), Context("p1", "a2")}
\* arrival gaps: at once, and just inside and just outside the cache's TTL
Arrivals == {0, TTL - 1, TTL}
RunTimes == {1}

\* the calls explored for the retry loop: one input, every timing
RetryInputs == {StrInput(Text("hello", 5)), ListInput(<<Entry("m1"), Entry("m2")>>)}
RetryContexts == {None}
RetryChoices == {0, 1, MAX_RETRIES}
RetryArrivals == {0, 1, Delay, TTL}
WakeLate == {0, MaxLate}

OptIdle ==
    [pc |-> "idle", input |-> None, context |-> None, max_retries |-> 0, key |-> None,
     attempt |-> 0, wake |-> 0, entered |-> 0, hit |-> FALSE, waits |-> 0, attempts |-> 0,
     failures |-> 0, sleeps |-> <<>>, result |-> None,
     pre_last |-> 0, pre_cache |-> <<>>]
NoCall == [kind |-> "None"]

\* the for loop is entered (attempt 0) or resumed after a backoff: with no
\* attempt to make the call returns the fallback, otherwise Runner.run starts
StartAttempt(o, attempt) ==
    IF attempt >= o.max_retries
    THEN [o EXCEPT !.pc = "returned", !.result = FallbackResponse]
    ELSE [o EXCEPT !.pc = "running", !.attempt = attempt, !.attempts = @ + 1]

\* run_with_optimization(input_data, context, max_retries) entered at time
\* now + gap: the cache lookup, then on a miss rate_limiter.wait() up to its
\* await or, when no sleep is needed, on to the first Runner.run.
OptCall(input, context, max_retries, gap) ==
    LET t == now + gap
        key == CreateCacheKey(input, context)
        cached == GetCachedResponse(response_cache, key, t)
        o == [OptIdle EXCEPT !.input = input, !.context = context,
                             !.max_retries = max_retries, !.key = key, !.entered = t,
                             !.pre_last = last_request, !.pre_cache = response_cache]
    IN
    /\ opt.pc \in {"idle", "returned", "raised"}
    /\ ncalls < MaxCalls
    /\ ncalls' = ncalls + 1
    /\ now' = t
    /\ prev' = IF opt.pc = "returned"
               THEN [kind |-> "Call", input |-> opt.input, context |-> opt.context,
                     key |-> opt.key, result |-> opt.result]
               ELSE prev
    /\ response_cache' = CacheAfterGet(response_cache, key, t)
    /\ IF cached # None
       THEN /\ opt' = [o EXCEPT !.pc = "returned", !.hit = TRUE, !.result = cached]
            /\ UNCHANGED <<last_request, grants>>
       ELSE IF MustSleep(t, last_request)
       THEN /\ opt' = [o EXCEPT !.pc = "rl_sleep", !.wake = t + SleepTime(t, last_request)]
            /\ UNCHANGED <<last_request, grants>>
       ELSE /\ Grant(t)
            /\ opt' = StartAttempt([o EXCEPT !.waits = @ + 1], 0)
    /\ UNCHANGED <<waiter, ninv, chatVars, dataVars, cm>>

\* the sleep of rate_limiter.wait() returns: the grant, then the first attempt
OptWake(late) ==
    LET t == Max(now, opt.wake) + late IN
    /\ opt.pc = "rl_sleep"
    /\ now' = t
    /\ Grant(t)
    /\ opt' = StartAttempt([opt EXCEPT !.waits = @ + 1], 0)
    /\ UNCHANGED <<waiter, response_cache, prev, ninv, ncalls, chatVars, dataVars, cm>>

\* Runner.run returns a result: it is cached and returned
OptRunOk(dur) ==
    LET t == now + dur
        result == [kind |-> "Ok", inv |-> ninv + 1,
                   input |-> OptimizeInput(opt.input), context |-> OptimizeContext(opt.context)]
    IN
    /\ opt.pc = "running"
    /\ now' = t
    /\ ninv' = ninv + 1
    /\ response_cache' = CacheResponse(response_cache, opt.key, result, t)
    /\ opt' = [opt EXCEPT !.pc = "returned", !.result = result]
    /\ UNCHANGED <<last_request, grants, waiter, prev, ncalls, chatVars, dataVars, cm>>

\* the exceptions a failing model invocation raises, all of them subclasses
\* of Exception
Failures == {"RateLimitError", "APITimeoutError"}

CatchesNothing(e) == FALSE
\* except Exception as e:
Catches(e) == e \in Failures

CacheAfterFailureStoring(cache, key, response, t) == CacheResponse(cache, key, response, t)
\* response_cache after the except branch, which has no cache_response call
CacheAfterFailure(cache, key, response, t) == cache

\* Runner.run raises: backoff sleep when attempts remain, else the fallback
OptRunFail(dur) ==
    LET t == now + dur
        o == [opt EXCEPT !.failures = @ + 1]
    IN
    /\ opt.pc = "running"
    /\ now' = t
    /\ ninv' = ninv + 1
    /\ \E e \in Failures :
          IF ~Catches(e)
          THEN opt' = [o EXCEPT !.pc = "raised", !.result = [kind |-> "Exception", error |-> e]]
          ELSE IF RetriesLeft(opt.attempt, opt.max_retries)
          THEN opt' = [o EXCEPT !.pc = "backoff", !.wake = t + BackoffDelay(opt.attempt),
                                !.sleeps = Append(@, BackoffDelay(opt.attempt))]
          ELSE opt' = [o EXCEPT !.pc = "returned", !.result = FallbackResponse]
    /\ response_cache' = CacheAfterFailure(response_cache, opt.key, FallbackResponse, t)
    /\ UNCHANGED <<last_request, grants, waiter, prev, ncalls, chatVars, dataVars, cm>>

\* the backoff sleep returns: the next iteration of the for loop
OptBackoffWake(late) ==
    LET t == Max(now, opt.wake) + late IN
    /\ opt.pc = "backoff"
    /\ now' = t
    /\ opt' = StartAttempt(opt, opt.attempt + 1)
    /\ UNCHANGED <<last_request, grants, waiter, response_cache, prev, ninv, ncalls, chatVars, dataVars, cm>>

\* a transcript of n entries, entry i longer than MAX_CONTEXT_LENGTH (none
\* when i = 0)
Transcript(n, i) ==
    [j \in 1..n |-> [role |-> "user",
                     content |-> Text(j, IF j = i THEN MAX_CONTEXT_LENGTH + 1 ELSE 5)]]

\* the arguments _optimize_input is applied to: transcripts up to MaxHistory
\* entries with at most one long entry, and short and long strings
OptimizeInputs ==
    { ListInput(Transcript(p[1], p[2])) :
        p \in {q \in (0..MaxHistory) \X (0..MaxHistory) : q[2] <= q[1]} }
    \cup { StrInput(Text("s", n)) : n \in {5, MAX_CONTEXT_LENGTH, MAX_CONTEXT_LENGTH + 1} }

\* self._optimize_input(input_data) applied to the pending argument
OptimizeOnly ==
    /\ opt.pc = "idle"
    /\ opt.input # None
    /\ opt' = [opt EXCEPT !.pc = "optimized", !.result = OptimizeInput(opt.input)]
    /\ UNCHANGED <<rlVars, waiter, response_cache, prev, ninv, ncalls, chatVars, dataVars, cm>>

\* ======================================================= TravelerTripData
Refs == {"BK-1", "BK-2"}
UnknownRef == "BK-9"
Statuses == {"Completed", "Upcoming", "Cancelled", "In Progress"}

\* self.df: not loaded (None), or the status of each trip
NoFrame == [loaded |-> FALSE, status |-> <<>>]
Frame(status) == [loaded |-> TRUE, status |-> status]
Frames == {NoFrame} \cup {Frame(st) : st \in [Refs -> Statuses]}
SampleFrame == Frame([r \in Refs |-> "Upcoming"])

\* get_trip_by_reference: trip.iloc[0].to_dict(), a dict built for the
\* caller, or None
GetTripByReference(frame, ref) ==
    IF ~frame.loaded THEN None
    ELSE IF ref \in DOMAIN frame.status
    THEN [booking_reference |-> ref, status |-> frame.status[ref]]
    ELSE None

\* is_eligible_for_cancellation = trip['status'] == 'Upcoming'
Eligible(trip) == trip # None /\ trip.status = "Upcoming"

\* self.df after trip['status'] = 'CANCELLED': trip is the dict that
\* get_trip_by_reference built, the assignment does not reach the frame
FrameAfterCancel(frame, ref) == frame

\* TravelerTripData.cancel_upcoming_trip_or_booking(ref)
CancelTrip(ref) ==
    LET trip == GetTripByReference(df, ref)
        returned == df.loaded /\ Eligible(trip)
    IN
    /\ Len(cancels) < MaxCancels
    /\ df' = IF returned THEN FrameAfterCancel(df, ref) ELSE df
    /\ cancels' = Append(cancels, [ref |-> ref, returned |-> returned])
    /\ UNCHANGED <<rlVars, waiter, optVars, chatVars, lookup, tool, cm, simple>>

\* ================================================= simple_agents, tools
\* an argument left at its default, None
NoArg == "None"
\* the truth value of a str argument: None and "" are false
Truthy(arg) == arg # NoArg /\ arg # ""

\* the arguments the model may pass: a booking reference of the data, a
\* traveler's name, or nothing; a name may arrive in either parameter
BookingReferences == {NoArg, "BK-1", "Alice"}
TravelerNames == {NoArg, "Alice"}
ToolGaps == {0, Delay, TTL}

\* cache_key = f"trip_lookup_{booking_reference or traveler_name or 'none'}"
TripLookupKey(booking_reference, traveler_name) ==
    <<"trip_lookup_",
      IF Truthy(booking_reference) THEN booking_reference
      ELSE IF Truthy(traveler_name) THEN traveler_name
      ELSE "none">>

\* the traveler_name column and the order of the rows
TravelerOf(ref) == IF ref = "BK-1" THEN "Alice" ELSE "Bob"
RefOrder == <<"BK-1", "BK-2">>

\* TravelerTripData.get_trips_by_traveler(traveler_name)
GetTripsByTraveler(frame, traveler_name) ==
    IF ~frame.loaded THEN <<>>
    ELSE LET refs == SelectSeq(RefOrder, LAMBDA r : TravelerOf(r) = traveler_name) IN
         [i \in DOMAIN refs |-> GetTripByReference(frame, refs[i])]

\* the response lookup_trip_data computes: its wording, the argument it
\* names and the trips it reports
TripLookupResponse(frame, booking_reference, traveler_name) ==
    IF Truthy(booking_reference)
    THEN LET trip_data == GetTripByReference(frame, booking_reference) IN
         IF trip_data # None
         THEN [text |-> "Found trip data for booking reference",
               arg |-> booking_reference, data |-> <<trip_data>>]
         ELSE [text |-> "No trip found for booking reference",
               arg |-> booking_reference, data |-> <<>>]
    ELSE IF Truthy(traveler_name)
    THEN LET trips == GetTripsByTraveler(frame, traveler_name) IN
         IF trips # <<>>
         THEN [text |-> "Found trips for", arg |-> traveler_name, data |-> trips]
         ELSE [text |-> "No trips found for traveler", arg |-> traveler_name, data |-> <<>>]
    ELSE [text |-> "Please provide either a booking reference or traveler name",
          arg |-> NoArg, data |-> <<>>]

\* A lookup_trip_data call: its arguments, its cache key, whether the cache
\* served it, and what it returned; n counts the calls made.
ToolIdle ==
    [pc |-> "idle", n |-> 0, booking_reference |-> NoArg, traveler_name |-> NoArg,
     key |-> None, wake |-> 0, hit |-> FALSE, result |-> None]

\* simple_lookup_trip_data(booking_reference, traveler_name) called at time
\* now + gap: the cache lookup and, on a hit, the return; on a miss up to the
\* await in rate_limiter.wait() or, when no sleep is needed, to the end
LookupTripData(booking_reference, traveler_name, gap) ==
    LET time == now + gap
        key == TripLookupKey(booking_reference, traveler_name)
        cached_response == GetCachedResponse(response_cache, key, time)
        cache == CacheAfterGet(response_cache, key, time)
        call == [ToolIdle EXCEPT !.n = tool.n + 1, !.key = key,
                                 !.booking_reference = booking_reference,
                                 !.traveler_name = traveler_name]
        response == TripLookupResponse(df, booking_reference, traveler_name)
    IN
    /\ tool.pc \in {"idle", "returned"}
    /\ tool.n < MaxToolCalls
    /\ now' = time
    /\ IF cached_response # None
       THEN /\ tool' = [call EXCEPT !.pc = "returned", !.hit = TRUE, !.result = cached_response]
            /\ response_cache' = cache
            /\ UNCHANGED <<last_request, grants>>
       ELSE IF MustSleep(time, last_request)
       THEN /\ tool' = [call EXCEPT !.pc = "sleeping",
                                    !.wake = time + SleepTime(time, last_request)]
            /\ response_cache' = cache
            /\ UNCHANGED <<last_request, grants>>
       ELSE /\ Grant(time)
            /\ response_cache' = CacheResponse(cache, key, response, time)
            /\ tool' = [call EXCEPT !.pc = "returned", !.result = response]
    /\ UNCHANGED <<waiter, opt, prev, ninv, ncalls, chatVars, lookup, df, cancels, cm, simple>>

\* the sleep of the tool's rate_limiter.wait() returns: the grant, the
\* lookup in the trip data, config.cache_response and the return
LookupTripDataWake(late) ==
    LET time == Max(now, tool.wake) + late
        response == TripLookupResponse(df, tool.booking_reference, tool.traveler_name)
    IN
    /\ tool.pc = "sleeping"
    /\ now' = time
    /\ Grant(time)
    /\ response_cache' = CacheResponse(response_cache, tool.key, response, time)
    /\ tool' = [tool EXCEPT !.pc = "returned", !.result = response]
    /\ UNCHANGED <<waiter, opt, prev, ninv, ncalls, chatVars, lookup, df, cancels, cm, simple>>

\* ======================================================= ContextManager
\* ContextManager.__init__; added is the history of the messages added
\* since the last clear_history
ContextManager(max_history) ==
    [max_history |-> max_history, conversation_history |-> <<>>, added |-> <<>>]

NewMessage(role, content, agent, t) ==
    [role |-> role, content |-> content, agent |-> agent, timestamp |-> t]

TrimOldest(history, max_history) ==
    IF Len(history) > max_history THEN SubSeq(history, 1, max_history) ELSE history
\* if len(self.conversation_history) > self.max_history:
\*     self.conversation_history = self.conversation_history[-self.max_history:]
Trim(history, max_history) ==
    IF Len(history) > max_history
    THEN (IF max_history = 0 THEN history ELSE LastN(history, max_history))
    ELSE history

\* ContextManager.add_message(role, content, agent) at loop time t
AddMessage(c, role, content, agent, t) ==
    LET message == NewMessage(role, content, agent, t) IN
    [c EXCEPT !.conversation_history = Trim(Append(@, message), c.max_history),
              !.added = Append(@, message)]

\* ContextManager.clear_history()
ClearHistory(c) == [c EXCEPT !.conversation_history = <<>>, !.added = <<>>]

Roles == {"user", "assistant"}

\* context_manager.add_message called on its own, one tick after the last call
AddMessageCall(role) ==
    /\ now < MaxMessages
    /\ now' = now + 1
    /\ cm' = AddMessage(cm, role, now + 1, IF role = "user" THEN NoArg ELSE "Triage Agent", now + 1)
    /\ UNCHANGED <<last_request, grants, waiter, optVars, chatVars, dataVars>>

\* context_manager.clear_history called on its own
ClearHistoryCall ==
    /\ now < MaxMessages
    /\ now' = now + 1
    /\ cm' = ClearHistory(cm)
    /\ UNCHANGED <<last_request, grants, waiter, optVars, chatVars, dataVars>>

\* ========================================================== chat_endpoint
\* ------------------------------------------------------------ the agents
Triage == "Triage Agent"
FAQ == "FAQ Agent"
Trip == "Trip Management Agent"
Registered == {Triage, FAQ, Trip}

HandoffsOutside(a) == {"Booking Agent"}
\* the agents an agent's handoffs list names
Handoffs(a) == IF a = Triage THEN {FAQ, Trip} ELSE {Triage}

GetAgentByNameRaw(name) == name
\* _get_agent_by_name: agents.get(name, simple_triage_agent)
GetAgentByName(name) == IF name \in Registered THEN name ELSE Triage

\* the Handoff object the source agent holds for the target, if any: the
\* handoffs lists hold Agent objects, never Handoff objects
HandoffObject(source, target) == None

\* ------------------------------------------------------ produced items
\* inv names the invocation that produced the item: <<turn, "primary">> or
\* <<turn, "followup">>
MessageItem(a, inv) == [type |-> "message", agent |-> a, text |-> "reply", inv |-> inv]
HandoffItem(a, b, inv) == [type |-> "handoff", agent |-> a, target |-> b, inv |-> inv]
ToolCallItem(a, name, args, inv) ==
    [type |-> "tool_call", agent |-> a, name |-> name, arguments |-> args, inv |-> inv]
ToolOutputItem(a, inv) == [type |-> "tool_output", agent |-> a, output |-> "result", inv |-> inv]
\* the output of a tool that assigned value to a field of the run's context
ToolWriteItem(a, field, value, inv) ==
    [type |-> "tool_output", agent |-> a, output |-> "result", inv |-> inv,
     sets |-> <<field, value>>]

\* state["context"] after a run that produced items: Runner.run hands the
\* context object itself to the tools
RECURSIVE ContextAfter(_, _)
ContextAfter(context, items) ==
    IF items = <<>> THEN context
    ELSE LET item == Head(items) IN
         ContextAfter(IF item.type = "tool_output" /\ "sets" \in DOMAIN item
                      THEN [context EXCEPT ![item.sets[1]] = item.sets[2]]
                      ELSE context,
                      Tail(items))

ParseArgsAlways(args) == [parsed |-> args.raw]
\* json.loads(raw_args), or raw_args when it does not parse
ParseArgs(args) == IF args.valid THEN [parsed |-> args.raw] ELSE args

MessageResponse(content, a) == [content |-> content, agent |-> a]
AgentEvent(type, a, content, metadata) ==
    [type |-> type, agent |-> a, content |-> content, metadata |-> metadata]

HandoffSwitchFirst(acc, item) == IF acc.handed_off THEN acc.current_agent ELSE item.target
\* current_agent = item.target_agent
HandoffSwitch(acc, item) == item.target

\* handed_off = True
HandedOff(acc) == TRUE

\* one iteration of the loop over result.new_items
ClassifyItem(acc, item) ==
    IF item.type = "message" THEN
        [acc EXCEPT !.messages = Append(@, MessageResponse(item.text, item.agent)),
                    !.events = Append(@, AgentEvent("message", item.agent, item.text, None))]
    ELSE IF item.type = "handoff" THEN
        [acc EXCEPT !.events =
                        Append(@, AgentEvent("handoff", item.agent, <<item.agent, "->", item.target>>,
                                  [source_agent |-> item.agent, target_agent |-> item.target]))
                        \o (IF HandoffObject(item.agent, item.target) # None
                            THEN <<AgentEvent("tool_call", item.target, "on_handoff", None)>>
                            ELSE <<>>),
                    !.current_agent = HandoffSwitch(acc, item),
                    !.handed_off = HandedOff(acc)]
    ELSE IF item.type = "tool_call" THEN
        [acc EXCEPT !.events = Append(@, AgentEvent("tool_call", item.agent, item.name,
                                         [tool_args |-> ParseArgs(item.arguments)])),
                    !.messages = IF item.name = "display_seat_map"
                                 THEN Append(@, MessageResponse("DISPLAY_SEAT_MAP", item.agent))
                                 ELSE @]
    ELSE IF item.type = "tool_output" THEN
        [acc EXCEPT !.events = Append(@, AgentEvent("tool_output", item.agent, item.output,
                                         [tool_result |-> item.output]))]
    ELSE acc

\* for item in result.new_items: ...
RECURSIVE ClassifyItems(_, _)
ClassifyItems(acc, items) ==
    IF items = <<>> THEN acc
    ELSE ClassifyItems(ClassifyItem(acc, Head(items)), Tail(items))

\* one iteration of the loop over followup_result.new_items: it has no
\* branch for a handoff item
ClassifyFollowupItem(acc, item) ==
    IF item.type = "handoff" THEN acc ELSE ClassifyItem(acc, item)

\* for item in followup_result.new_items: ...
RECURSIVE ClassifyFollowupItems(_, _)
ClassifyFollowupItems(acc, items) ==
    IF items = <<>> THEN acc
    ELSE ClassifyFollowupItems(ClassifyFollowupItem(acc, Head(items)), Tail(items))

\* ------------------------------------------------------ Runner.run
\* What a run started on agent a may produce: a reply; a tool call, its
\* output and a reply; a handoff along the agents' handoffs lists followed by
\* the target's reply; two handoffs in a row and the last target's reply.
RunItems(a, inv) ==
    { <<MessageItem(a, inv)>>,
      <<ToolCallItem(a, "lookup_trip_data", [raw |-> "{}", valid |-> TRUE], inv),
        ToolOutputItem(a, inv), MessageItem(a, inv)>> }
    \cup { <<HandoffItem(a, b, inv), MessageItem(b, inv)>> : b \in Handoffs(a) }
    \cup UNION { { <<HandoffItem(a, b, inv), HandoffItem(b, c, inv), MessageItem(c, inv)>> :
                     c \in Handoffs(b) } : b \in Handoffs(a) }

\* the runs explored when turns overlap: a reply, or a handoff and a reply
RunItemsBasic(a, inv) ==
    { <<MessageItem(a, inv)>> }
    \cup { <<HandoffItem(a, b, inv), MessageItem(b, inv)>> : b \in Handoffs(a) }

\* an agent object that _get_agent_by_name does not know
Unregistered == "Booking Agent"

\* Runner.run as the opaque capability chat_endpoint is written against: it
\* may also return a tool output that wrote the context, with or without
\* changing the field's value, a handoff to an agent outside the registry,
\* and a call of the tool named display_seat_map, with an argument payload
\* that parses or one that does not
RunItemsOpaque(a, inv) ==
    RunItemsBasic(a, inv)
    \cup { <<ToolCallItem(a, "update_passenger", [raw |-> "{", valid |-> FALSE], inv),
             ToolWriteItem(a, "passenger_name", v, inv), MessageItem(a, inv)>> :
             v \in {"None", "p1"} }
    \cup { <<HandoffItem(a, Unregistered, inv), MessageItem(Unregistered, inv)>>,
           <<HandoffItem(a, FAQ, inv), HandoffItem(FAQ, Unregistered, inv),
             MessageItem(Unregistered, inv)>> }
    \cup { <<ToolCallItem(a, "display_seat_map", [raw |-> "{\"seat\"", valid |-> valid], inv),
             ToolOutputItem(a, inv), MessageItem(a, inv)>> : valid \in BOOLEAN }

\* result.to_input_list(): the input of the run, then what it produced
ToInputList(input, items) == input \o items

\* str(result.final_output): the text of the last message produced
FinalOutput(items) ==
    LET texts == SelectSeq(items, LAMBDA item : item.type = "message") IN
    IF texts = <<>> THEN "None" ELSE texts[Len(texts)].text

RunResult(input, items) ==
    [kind |-> "Ok", new_items |-> items, to_input_list |-> ToInputList(input, items)]

\* ------------------------------------------------------ conversations
ConvIds == {"c1", "n1", "n2"}
FreshIds == <<"n1", "n2">>
NoId == "None"
Uuid4Again(n) == FreshIds[1]
\* uuid4().hex: the n+1-th id drawn, taken to differ from every id drawn
\* or seen before
Uuid4(n) == FreshIds[n + 1]
NoState == [kind |-> "None"]
Turns == {"t1", "t2"}

StripOff(message) == message
\* req.message.strip()
Strip(message) == IF message = "  " THEN "" ELSE message
Messages == {"", "  ", "hi"}

UserEntry(t, message) == [role |-> "user", content |-> message, turn |-> t]
ApologyEntry == [role |-> "assistant", content |-> "technical difficulties apology"]
OldEntry(i) == [role |-> "old", content |-> i]

\* create_initial_context().model_dump(): no tool of these agents writes the
\* context
InitialContext == [passenger_name |-> "None", account_number |-> "None"]

ContextChangesAll(old, new) == new
\* changes = {k: new_context[k] for k in new_context if old_context.get(k) != new_context[k]}
ContextChanges(old, new) ==
    [k \in {f \in DOMAIN new : (IF f \in DOMAIN old THEN old[f] ELSE "None") # new[f]} |-> new[k]]

State(items, a) == [input_items |-> items, context |-> InitialContext, current_agent |-> a]

\* the conversation "c1" that is stored when the turns begin: a fresh one,
\* or one with MAX_CONVERSATION_HISTORY entries that a handoff left with the
\* FAQ agent
InitConversations ==
    { State(<<>>, Triage),
      State([i \in 1..MAX_CONVERSATION_HISTORY |-> OldEntry(i)], FAQ) }

SaveOverAll(store, id, state) == [i \in DOMAIN store |-> IF store[i] = NoState THEN store[i] ELSE state]
\* conversation_store.save(conversation_id, state):
\* self._conversations[conversation_id] = state
Save(store, id, state) == [store EXCEPT ![id] = state]

\* conversation_store.get(conversation_id)
StoreGet(id) == IF id \in saved THEN conv[id] ELSE NoState

\* A turn's locals, and for the claims what it did: outcome ("empty",
\* "fallback", "normal", or "error" when an exception left the handler),
\* stored_agent (state["current_agent"] as the turn read it), pre_last
\* (last_request when the turn began), invocations (the primary
\* Runner.run calls started), followups (the follow-up invocations started),
\* followup_agent (the agent of the follow-up), persisted (the state it saved).
TurnIdle ==
    [pc |-> "idle", req |-> None, cid |-> NoId, is_new |-> FALSE,
     stored_agent |-> NoId, start_agent |-> NoId, current_agent |-> NoId, handed_off |-> FALSE,
     old_context |-> None, aliased |-> FALSE, optimized_input |-> <<>>,
     run_input |-> <<>>, wake |-> 0, pre_last |-> 0, invocations |-> 0,
     result |-> None, followup_result |-> None, followups |-> 0, followup_agent |-> NoId,
     messages |-> <<>>, events |-> <<>>, outcome |-> "none", response |-> None,
     persisted |-> None]

ChatResponse(cid, a, messages, events, context) ==
    [conversation_id |-> cid, current_agent |-> a, messages |-> messages,
     events |-> events, context |-> context]

\* The list optimized_input names when Runner.run is called: the list object
\* of state["input_items"] itself while the turn aliases it, else the turn's
\* own copy.
RunInput(t) ==
    IF turn[t].aliased THEN conv[turn[t].cid].input_items ELSE turn[t].optimized_input

ShortCircuitAny(is_new, message) == Strip(message) = ""
\* if is_new: ... if req.message.strip() == "": the empty start
ShortCircuit(is_new, message) == is_new /\ Strip(message) = ""

\* chat_endpoint entered at time now + gap with ChatRequest(conversation_id,
\* message): up to the return of the empty start, or, past
\* context_manager.add_message("user", ...), to the await in
\* rate_limiter.wait(), or, when no sleep is needed, to the await of Runner.run.
ChatStart(t, rcid, message, gap) ==
    LET time == now + gap
        is_new == rcid = NoId \/ StoreGet(rcid) = NoState
        cid == IF is_new THEN Uuid4(nfresh) ELSE rcid
        state == IF is_new THEN State(<<>>, Triage) ELSE StoreGet(rcid)
        current_agent == GetAgentByName(state.current_agent)
        items == Append(state.input_items, UserEntry(t, message))
        copied == Len(items) > MAX_CONVERSATION_HISTORY
        tr == [TurnIdle EXCEPT !.req = [conversation_id |-> rcid, message |-> message],
                               !.cid = cid, !.is_new = is_new, !.pre_last = last_request,
                               !.stored_agent = state.current_agent,
                               !.start_agent = current_agent, !.current_agent = current_agent]
        routed == [tr EXCEPT !.old_context = state.context, !.aliased = ~copied,
                             !.optimized_input =
                                 IF copied THEN LastN(items, MAX_CONVERSATION_HISTORY) ELSE <<>>]
    IN
    /\ turn[t].pc = "idle"
    /\ now' = time
    /\ nfresh' = IF is_new THEN nfresh + 1 ELSE nfresh
    /\ IF ShortCircuit(is_new, message)
       THEN /\ conv' = Save(conv, cid, state)
            /\ saved' = saved \cup {cid}
            /\ UNCHANGED cm
            /\ turn' = [turn EXCEPT ![t] =
                   [tr EXCEPT !.pc = "done", !.outcome = "empty", !.persisted = state,
                              !.response = ChatResponse(cid, current_agent, <<>>, <<>>, state.context)]]
            /\ UNCHANGED <<last_request, grants>>
       ELSE /\ conv' = [conv EXCEPT ![cid] = [state EXCEPT !.input_items = items]]
            /\ cm' = AddMessage(cm, "user", message, NoArg, time)
            /\ UNCHANGED saved
            /\ IF MustSleep(time, last_request)
               THEN /\ turn' = [turn EXCEPT ![t] =
                          [routed EXCEPT !.pc = "rl_sleep",
                                         !.wake = time + SleepTime(time, last_request)]]
                    /\ UNCHANGED <<last_request, grants>>
               ELSE /\ Grant(time)
                    /\ turn' = [turn EXCEPT ![t] =
                          [routed EXCEPT !.pc = "running", !.invocations = @ + 1,
                                         !.run_input = IF copied THEN routed.optimized_input
                                                       ELSE items]]
    /\ UNCHANGED <<waiter, optVars, dataVars>>

\* the sleep of the first rate_limiter.wait() returns: the grant, then
\* Runner.run(current_agent, optimized_input, ...) is called
ChatWake(t, late) ==
    LET time == Max(now, turn[t].wake) + late IN
    /\ turn[t].pc = "rl_sleep"
    /\ now' = time
    /\ Grant(time)
    /\ turn' = [turn EXCEPT ![t] = [@ EXCEPT !.pc = "running", !.invocations = @ + 1,
                                              !.run_input = RunInput(t)]]
    /\ UNCHANGED <<waiter, optVars, conv, saved, nfresh, dataVars, cm>>

WithContextUpdateFirst(events, update) == <<update>> \o events
\* if changes: events.append(AgentEvent(type="context_update", ...))
WithContextUpdate(events, update) == Append(events, update)

\* new_context against old_context, then state["input_items"] =
\* result.to_input_list(), state["current_agent"] = current_agent.name,
\* conversation_store.save and the response.  The assignment binds a new
\* list: a turn still holding the old list as its optimized_input keeps the
\* old list.  context is state["context"] as the runs left it.
Finish(t, tr, context) ==
    LET cid == tr.cid
        changes == ContextChanges(tr.old_context, context)
        events == IF DOMAIN changes # {}
                  THEN WithContextUpdate(tr.events,
                                         AgentEvent("context_update", tr.current_agent, "",
                                                    [changes |-> changes]))
                  ELSE tr.events
        state == [conv[cid] EXCEPT !.input_items = tr.result.to_input_list,
                                   !.context = context,
                                   !.current_agent = tr.current_agent]
    IN
    /\ conv' = Save(conv, cid, state)
    /\ saved' = saved \cup {cid}
    /\ turn' = [u \in Turns |->
           IF u = t
           THEN [tr EXCEPT !.pc = "done", !.outcome = "normal", !.events = events,
                           !.persisted = state,
                           !.response = ChatResponse(cid, tr.current_agent, tr.messages,
                                                     events, state.context)]
           ELSE IF turn[u].pc = "rl_sleep" /\ turn[u].cid = cid /\ turn[u].aliased
           THEN [turn[u] EXCEPT !.aliased = FALSE, !.optimized_input = conv[cid].input_items]
           ELSE turn[u]]

FollowupNeededIfSingle(acc) ==
    acc.handed_off /\ Cardinality({i \in DOMAIN acc.events : acc.events[i].type = "handoff"}) = 1
\* if handed_off:
FollowupNeeded(acc) == acc.handed_off

\* Runner.run returns the primary result: context_manager.add_message of
\* its final output, the loop over its items, then with
\* a handoff the second rate_limiter.wait() up to its await or, when no
\* sleep is needed, on to the follow-up Runner.run; without one, to the end.
ChatRunOk(t, items, dur) ==
    LET time == now + dur
        result == RunResult(turn[t].run_input, items)
        context == ContextAfter(conv[turn[t].cid].context, items)
        acc == ClassifyItems([messages |-> <<>>, events |-> <<>>,
                              current_agent |-> turn[t].current_agent,
                              handed_off |-> FALSE], items)
        tr == [turn[t] EXCEPT !.result = result, !.messages = acc.messages,
                              !.events = acc.events, !.current_agent = acc.current_agent,
                              !.handed_off = acc.handed_off]
    IN
    /\ turn[t].pc = "running"
    /\ now' = time
    /\ cm' = AddMessage(cm, "assistant", FinalOutput(items), turn[t].current_agent, time)
    /\ IF FollowupNeeded(acc)
       THEN /\ IF MustSleep(time, last_request)
               THEN /\ turn' = [turn EXCEPT ![t] =
                          [tr EXCEPT !.pc = "followup_sleep",
                                     !.wake = time + SleepTime(time, last_request)]]
                    /\ UNCHANGED <<last_request, grants>>
               ELSE /\ Grant(time)
                    /\ turn' = [turn EXCEPT ![t] =
                          [tr EXCEPT !.pc = "followup_running", !.followups = @ + 1,
                                     !.followup_agent = tr.current_agent,
                                     !.run_input = conv[tr.cid].input_items]]
            /\ conv' = [conv EXCEPT ![tr.cid].context = context]
            /\ UNCHANGED saved
       ELSE /\ Finish(t, tr, context)
            /\ UNCHANGED <<last_request, grants>>
    /\ UNCHANGED <<waiter, optVars, nfresh, dataVars>>

\* except Exception as e: of the primary try
PrimaryCatches(e) == e \in Failures

\* an exception leaves chat_endpoint: the turn ends without a response
Escaped(tr) == [tr EXCEPT !.pc = "done", !.outcome = "error"]

\* Runner.run raises in the primary call: the apology is appended to
\* state["input_items"] and returned; nothing is saved
ChatRunFail(t, dur) ==
    LET cid == turn[t].cid IN
    /\ turn[t].pc = "running"
    /\ now' = now + dur
    /\ \E e \in Failures :
          IF PrimaryCatches(e)
          THEN /\ conv' = [conv EXCEPT ![cid].input_items = Append(@, ApologyEntry)]
               /\ turn' = [turn EXCEPT ![t] =
                      [@ EXCEPT !.pc = "done", !.outcome = "fallback",
                                !.response = ChatResponse(cid, turn[t].current_agent,
                                    <<MessageResponse(ApologyEntry.content, turn[t].current_agent)>>,
                                    <<>>, conv[cid].context)]]
          ELSE /\ turn' = [turn EXCEPT ![t] = Escaped(@)]
               /\ UNCHANGED conv
    /\ UNCHANGED <<last_request, grants, waiter, optVars, saved, nfresh, dataVars, cm>>

\* the sleep of the second rate_limiter.wait() returns: the grant, then
\* Runner.run(current_agent, state["input_items"], ...) is called
ChatFollowupWake(t, late) ==
    LET time == Max(now, turn[t].wake) + late IN
    /\ turn[t].pc = "followup_sleep"
    /\ now' = time
    /\ Grant(time)
    /\ turn' = [turn EXCEPT ![t] =
           [@ EXCEPT !.pc = "followup_running", !.followups = @ + 1,
                     !.followup_agent = turn[t].current_agent,
                     !.run_input = conv[turn[t].cid].input_items]]
    /\ UNCHANGED <<waiter, optVars, conv, saved, nfresh, dataVars, cm>>

\* the follow-up Runner.run returns: the loop over its items, then the end
ChatFollowupOk(t, items, dur) ==
    LET result == RunResult(turn[t].run_input, items)
        acc == ClassifyFollowupItems([messages |-> turn[t].messages, events |-> turn[t].events,
                                      current_agent |-> turn[t].current_agent,
                                      handed_off |-> turn[t].handed_off], items)
    IN
    /\ turn[t].pc = "followup_running"
    /\ now' = now + dur
    /\ Finish(t, [turn[t] EXCEPT !.followup_result = result, !.messages = acc.messages,
                                 !.events = acc.events],
              ContextAfter(conv[turn[t].cid].context, items))
    /\ UNCHANGED <<last_request, grants, waiter, optVars, nfresh, dataVars, cm>>

FollowupCatchesNothing(e) == FALSE
\* except Exception as e: of the follow-up try
FollowupCatches(e) == e \in Failures

\* the follow-up Runner.run raises: logged, then the end
ChatFollowupFail(t, dur) ==
    /\ turn[t].pc = "followup_running"
    /\ now' = now + dur
    /\ \E e \in Failures :
          IF FollowupCatches(e)
          THEN Finish(t, turn[t], conv[turn[t].cid].context)
          ELSE /\ turn' = [turn EXCEPT ![t] = Escaped(@)]
               /\ UNCHANGED <<conv, saved>>
    /\ UNCHANGED <<last_request, grants, waiter, optVars, nfresh, dataVars, cm>>

\* the ids a client can send: none, one that is not stored, the stored
\* conversation, or one a finished turn returned
RequestIds ==
    {NoId, "zz", "c1"} \cup {turn[t].cid : t \in {u \in Turns : turn[u].pc = "done"}}
ChatArrivals == {0, Delay}
ChatRunTimes == {1, Delay}

NoneInWait == \A w \in Waiters : waiter[w].pc = "idle"

\* ================================================ simple_api.chat_endpoint
\* The process that serves simple_api: its event loop's clock, its own
\* conversation_store, rate limiter and context_manager, and the locals of
\* its chat_endpoint call.
SimpleProcess(conversations, ids) ==
    [now |-> 0, conv |-> conversations, saved |-> ids, nfresh |-> 0, last_request |-> 0,
     cm |-> ContextManager(MAX_CONVERSATION_HISTORY), turn |-> TurnIdle]

SimpleHandoffStay(acc, item) == acc.current_agent
\* current_agent = item.target_agent
SimpleHandoffSwitch(acc, item) == item.target

\* one iteration of simple_api's loop over result.new_items: a tool_call
\* event carries the name alone and no message is added for it
ClassifySimpleItem(acc, item) ==
    IF item.type = "message" THEN
        [acc EXCEPT !.messages = Append(@, MessageResponse(item.text, item.agent)),
                    !.events = Append(@, AgentEvent("message", item.agent, item.text, None))]
    ELSE IF item.type = "handoff" THEN
        [acc EXCEPT !.events =
                        Append(@, AgentEvent("handoff", item.agent, <<item.agent, "->", item.target>>,
                                  [source_agent |-> item.agent, target_agent |-> item.target])),
                    !.current_agent = SimpleHandoffSwitch(acc, item)]
    ELSE IF item.type = "tool_call" THEN
        [acc EXCEPT !.events = Append(@, AgentEvent("tool_call", item.agent, item.name, None))]
    ELSE IF item.type = "tool_output" THEN
        [acc EXCEPT !.events = Append(@, AgentEvent("tool_output", item.agent, item.output,
                                         [tool_result |-> item.output]))]
    ELSE acc

RECURSIVE ClassifySimpleItems(_, _)
ClassifySimpleItems(acc, items) ==
    IF items = <<>> THEN acc
    ELSE ClassifySimpleItems(ClassifySimpleItem(acc, Head(items)), Tail(items))

\* simple_api.chat_endpoint entered at its time now + gap with the request
\* that turn t names: up to the return of the empty start, or to the await
\* in rate_limiter.wait(), or, when no sleep is needed, to the await of
\* Runner.run
SimpleChatStart(t, rcid, message, gap) ==
    LET time == simple.now + gap
        is_new == rcid = NoId \/ rcid \notin simple.saved
        cid == IF is_new THEN Uuid4(simple.nfresh) ELSE rcid
        state == IF is_new THEN State(<<>>, Triage) ELSE simple.conv[rcid]
        current_agent == GetAgentByName(state.current_agent)
        items == Append(state.input_items, UserEntry(t, message))
        optimized_input == IF Len(items) > MAX_CONVERSATION_HISTORY
                           THEN LastN(items, MAX_CONVERSATION_HISTORY) ELSE items
        tr == [TurnIdle EXCEPT !.req = [conversation_id |-> rcid, message |-> message],
                               !.cid = cid, !.is_new = is_new, !.pre_last = simple.last_request,
                               !.stored_agent = state.current_agent,
                               !.start_agent = current_agent, !.current_agent = current_agent]
        routed == [tr EXCEPT !.old_context = state.context, !.run_input = optimized_input]
        allocated == [simple EXCEPT !.now = time, !.nfresh = IF is_new THEN @ + 1 ELSE @]
    IN
    /\ simple.turn.pc = "idle"
    /\ simple' =
          IF ShortCircuit(is_new, message)
          THEN [allocated EXCEPT
                   !.conv = Save(@, cid, state),
                   !.saved = @ \cup {cid},
                   !.turn = [tr EXCEPT !.pc = "done", !.outcome = "empty", !.persisted = state,
                                       !.response = ChatResponse(cid, current_agent, <<>>, <<>>,
                                                                 state.context)]]
          ELSE [allocated EXCEPT
                   !.conv = [@ EXCEPT ![cid] = [state EXCEPT !.input_items = items]],
                   !.cm = AddMessage(@, "user", message, NoArg, time),
                   !.last_request = IF MustSleep(time, simple.last_request) THEN @ ELSE time,
                   !.turn = IF MustSleep(time, simple.last_request)
                            THEN [routed EXCEPT !.pc = "rl_sleep",
                                                !.wake = time + SleepTime(time, simple.last_request)]
                            ELSE [routed EXCEPT !.pc = "running", !.invocations = @ + 1]]
    /\ UNCHANGED <<rlVars, waiter, optVars, chatVars, lookup, df, cancels, tool, cm>>

\* the sleep of simple_api's rate_limiter.wait() returns: last_request is
\* set and Runner.run is called
SimpleChatWake(late) ==
    LET time == Max(simple.now, simple.turn.wake) + late IN
    /\ simple.turn.pc = "rl_sleep"
    /\ simple' = [simple EXCEPT !.now = time, !.last_request = time,
                                !.turn = [@ EXCEPT !.pc = "running", !.invocations = @ + 1]]
    /\ UNCHANGED <<rlVars, waiter, optVars, chatVars, lookup, df, cancels, tool, cm>>

\* simple_api's Runner.run returns: add_message of the final output, the
\* loop over the items, the context_update event, the assignments to
\* state, conversation_store.save and the response
SimpleChatRunOk(items, dur) ==
    LET time == simple.now + dur
        tr == simple.turn
        cid == tr.cid
        result == RunResult(tr.run_input, items)
        context == ContextAfter(simple.conv[cid].context, items)
        acc == ClassifySimpleItems([messages |-> <<>>, events |-> <<>>,
                                    current_agent |-> tr.current_agent], items)
        changes == ContextChanges(tr.old_context, context)
        events == IF DOMAIN changes # {}
                  THEN WithContextUpdate(acc.events,
                                         AgentEvent("context_update", acc.current_agent, "",
                                                    [changes |-> changes]))
                  ELSE acc.events
        state == [simple.conv[cid] EXCEPT !.input_items = result.to_input_list,
                                          !.context = context,
                                          !.current_agent = acc.current_agent]
    IN
    /\ tr.pc = "running"
    /\ simple' = [simple EXCEPT
           !.now = time,
           !.cm = AddMessage(@, "assistant", FinalOutput(items), tr.current_agent, time),
           !.conv = Save(@, cid, state),
           !.saved = @ \cup {cid},
           !.turn = [tr EXCEPT !.pc = "done", !.outcome = "normal", !.result = result,
                               !.current_agent = acc.current_agent,
                               !.messages = acc.messages, !.events = events,
                               !.persisted = state,
                               !.response = ChatResponse(cid, acc.current_agent, acc.messages,
                                                         events, context)]]
    /\ UNCHANGED <<rlVars, waiter, optVars, chatVars, lookup, df, cancels, tool, cm>>

\* simple_api's Runner.run raises: the apology is appended to
\* state["input_items"] and returned; nothing is saved
SimpleChatRunFail(dur) ==
    LET tr == simple.turn
        cid == tr.cid
    IN
    /\ tr.pc = "running"
    /\ \E e \in Failures :
          simple' =
             IF PrimaryCatches(e)
             THEN [simple EXCEPT
                      !.now = @ + dur,
                      !.conv = [@ EXCEPT ![cid].input_items = Append(@, ApologyEntry)],
                      !.turn = [tr EXCEPT !.pc = "done", !.outcome = "fallback",
                                          !.response = ChatResponse(cid, tr.current_agent,
                                              <<MessageResponse(ApologyEntry.content, tr.current_agent)>>,
                                              <<>>, simple.conv[cid].context)]]
             ELSE [simple EXCEPT !.now = @ + dur, !.turn = Escaped(tr)]
    /\ UNCHANGED <<rlVars, waiter, optVars, chatVars, lookup, df, cancels, tool, cm>>

NoLookup == [n |-> 0, kind |-> "none", key |-> None, at |-> 0, result |-> None, before |-> <<>>]

\* the state after construction, for the stored conversations, the trip data
\* and the pending run_with_optimization arguments given
InitWith(conversations, frames, calls) ==
    /\ now = 0
    /\ last_request = 0
    /\ grants = <<>>
    /\ waiter = [w \in Waiters |-> [pc |-> "idle", wake |-> 0]]
    /\ response_cache = <<>>
    /\ opt \in calls
    /\ prev = NoCall
    /\ ninv = 0
    /\ ncalls = 0
    /\ \E c \in conversations :
          conv = [id \in ConvIds |-> IF id = "c1" THEN c ELSE NoState]
    /\ saved = {"c1"}
    /\ nfresh = 0
    /\ turn = [t \in Turns |-> TurnIdle]
    /\ lookup = NoLookup
    /\ df \in frames
    /\ cancels = <<>>
    /\ tool = ToolIdle
    /\ cm = ContextManager(MAX_CONVERSATION_HISTORY)
    /\ simple = SimpleProcess(conv, saved)

Init == InitWith(InitConversations, {SampleFrame}, {OptIdle})

\* the stored conversation may also carry the name an earlier turn took
\* from a handoff to an agent outside the registry
InitOpaque ==
    InitWith(InitConversations \cup {State(<<OldEntry(1)>>, Unregistered)}, {SampleFrame}, {OptIdle})

\* wait() calls made one after another: a call begins only when no call is
\* in progress.
NextWaitSeq ==
    \/ \E w \in Waiters, gap \in Gaps : NoneInWait /\ WaitEnter(w, gap)
    \/ \E w \in Waiters, late \in Lateness : WaitWake(w, late)

SpecWaitSeq == Init /\ [][NextWaitSeq]_vars

\* wait() calls of concurrent coroutines: calls may overlap.
NextWaitConc ==
    \/ \E w \in Waiters, gap \in Gaps : WaitEnter(w, gap)
    \/ \E w \in Waiters, late \in Lateness : WaitWake(w, late)

SpecWaitConc == Init /\ [][NextWaitConc]_vars

\* run_with_optimization calls made one after another, over the inputs and
\* contexts that can share or miss a cache key
NextOpt ==
    \/ \E input \in OptInputs, context \in OptContexts, gap \in Arrivals :
          OptCall(input, context, MAX_RETRIES, gap)
    \/ OptWake(0)
    \/ \E dur \in RunTimes : OptRunOk(dur)
    \/ \E dur \in RunTimes : OptRunFail(dur)
    \/ OptBackoffWake(0)

SpecOpt == Init /\ [][NextOpt]_vars

\* run_with_optimization calls made one after another, over every retry
\* budget and timing
NextRetry ==
    \/ \E input \in RetryInputs, context \in RetryContexts, max_retries \in RetryChoices, gap \in RetryArrivals :
          OptCall(input, context, max_retries, gap)
    \/ \E late \in WakeLate : OptWake(late)
    \/ \E dur \in RunTimes : OptRunOk(dur)
    \/ \E dur \in RunTimes : OptRunFail(dur)
    \/ \E late \in WakeLate : OptBackoffWake(late)

SpecRetry == Init /\ [][NextRetry]_vars

\* one chat_endpoint turn, over every request, timing and run
NextTurn ==
    \/ \E rcid \in RequestIds, message \in Messages, gap \in ChatArrivals :
          ChatStart("t1", rcid, message, gap)
    \/ \E late \in WakeLate : ChatWake("t1", late)
    \/ \E dur \in ChatRunTimes :
          \E items \in RunItems(turn["t1"].current_agent, <<"t1", "primary">>) :
             ChatRunOk("t1", items, dur)
    \/ \E dur \in ChatRunTimes : ChatRunFail("t1", dur)
    \/ \E late \in WakeLate : ChatFollowupWake("t1", late)
    \/ \E dur \in ChatRunTimes :
          \E items \in RunItems(turn["t1"].current_agent, <<"t1", "followup">>) :
             ChatFollowupOk("t1", items, dur)
    \/ \E dur \in ChatRunTimes : ChatFollowupFail("t1", dur)

SpecTurn == Init /\ [][NextTurn]_vars

\* what resumes a suspended turn: the end of a sleep in rate_limiter.wait()
\* or the return of Runner.run
TurnResumes ==
    \/ \E late \in WakeLate : ChatWake("t1", late)
    \/ \E dur \in ChatRunTimes :
          \E items \in RunItems(turn["t1"].current_agent, <<"t1", "primary">>) :
             ChatRunOk("t1", items, dur)
    \/ \E dur \in ChatRunTimes : ChatRunFail("t1", dur)
    \/ \E late \in WakeLate : ChatFollowupWake("t1", late)
    \/ \E dur \in ChatRunTimes :
          \E items \in RunItems(turn["t1"].current_agent, <<"t1", "followup">>) :
             ChatFollowupOk("t1", items, dur)
    \/ \E dur \in ChatRunTimes : ChatFollowupFail("t1", dur)

\* one chat_endpoint turn in which every await eventually resumes
SpecTurnLive == Init /\ [][NextTurn]_vars /\ WF_vars(TurnResumes)

\* chat_endpoint turns that may overlap at their awaits
NextChatConc ==
    \/ \E t \in Turns, rcid \in RequestIds \ {"zz"}, message \in {"", "hi"} :
          ChatStart(t, rcid, message, 0)
    \/ \E t \in Turns : ChatWake(t, 0)
    \/ \E t \in Turns :
          \E items \in RunItemsBasic(turn[t].current_agent, <<t, "primary">>) : ChatRunOk(t, items, 1)
    \/ \E t \in Turns : ChatRunFail(t, 1)
    \/ \E t \in Turns : ChatFollowupWake(t, 0)
    \/ \E t \in Turns :
          \E items \in RunItemsBasic(turn[t].current_agent, <<t, "followup">>) : ChatFollowupOk(t, items, 1)
    \/ \E t \in Turns : ChatFollowupFail(t, 1)

SpecChatConc == Init /\ [][NextChatConc]_vars

\* cache_response and get_cached_response called directly, in any order
NextCache ==
    \/ \E key \in CacheKeys, gap \in CacheGaps : CachePut(key, gap)
    \/ \E key \in CacheKeys, gap \in CacheGaps : CacheGet(key, gap)

SpecCache == InitWith({State(<<>>, Triage)}, {SampleFrame}, {OptIdle}) /\ [][NextCache]_vars

\* _optimize_input applied to each argument
InitOptimize ==
    InitWith({State(<<>>, Triage)}, {SampleFrame},
             {[OptIdle EXCEPT !.input = input] : input \in OptimizeInputs})

NextOptimize == OptimizeOnly

SpecOptimize == InitOptimize /\ [][NextOptimize]_vars

\* cancel_upcoming_trip_or_booking calls on any trip data
InitTrips == InitWith({State(<<>>, Triage)}, Frames, {OptIdle})

NextTrips == \E ref \in Refs \cup {UnknownRef} : CancelTrip(ref)

SpecTrips == InitTrips /\ [][NextTrips]_vars

\* one api.chat_endpoint turn, then simple_api.chat_endpoint in its own
\* process on the same stored state, with the same request and with the
\* result, or the failure, that the primary Runner.run of the first gave
NextBoth ==
    \/ \E rcid \in RequestIds, message \in Messages : ChatStart("t1", rcid, message, 0)
    \/ ChatWake("t1", 0)
    \/ \E items \in RunItems(turn["t1"].current_agent, <<"t1", "primary">>)
                    \cup RunItemsOpaque(turn["t1"].current_agent, <<"t1", "primary">>) :
          ChatRunOk("t1", items, 1)
    \/ ChatRunFail("t1", 1)
    \/ ChatFollowupWake("t1", 0)
    \/ \E items \in RunItems(turn["t1"].current_agent, <<"t1", "followup">>)
                    \cup RunItemsOpaque(turn["t1"].current_agent, <<"t1", "followup">>) :
          ChatFollowupOk("t1", items, 1)
    \/ ChatFollowupFail("t1", 1)
    \/ /\ turn["t1"].pc = "done"
       /\ \E gap \in ChatArrivals :
             SimpleChatStart("t1", turn["t1"].req.conversation_id, turn["t1"].req.message, gap)
    \/ SimpleChatWake(0)
    \/ /\ turn["t1"].result # None
       /\ SimpleChatRunOk(turn["t1"].result.new_items, 1)
    \/ /\ turn["t1"].outcome = "fallback"
       /\ SimpleChatRunFail(1)

SpecBoth == InitOpaque /\ [][NextBoth]_vars

\* lookup_trip_data calls made one after another on any trip data
NextTools ==
    \/ \E booking_reference \in BookingReferences, traveler_name \in TravelerNames,
          gap \in ToolGaps :
          LookupTripData(booking_reference, traveler_name, gap)
    \/ \E late \in Lateness : LookupTripDataWake(late)

SpecTools == Init /\ [][NextTools]_vars

\* add_message and clear_history calls in any order
NextHistory ==
    \/ \E role \in Roles : AddMessageCall(role)
    \/ ClearHistoryCall

SpecHistory == Init /\ [][NextHistory]_vars

\* one chat_endpoint turn against the opaque capability
NextTurnOpaque ==
    \/ \E rcid \in RequestIds, message \in Messages :
          ChatStart("t1", rcid, message, 0)
    \/ ChatWake("t1", 0)
    \/ \E items \in RunItemsOpaque(turn["t1"].current_agent, <<"t1", "primary">>) :
          ChatRunOk("t1", items, 1)
    \/ ChatRunFail("t1", 1)
    \/ ChatFollowupWake("t1", 0)
    \/ \E items \in RunItemsOpaque(turn["t1"].current_agent, <<"t1", "followup">>) :
          ChatFollowupOk("t1", items, 1)
    \/ ChatFollowupFail("t1", 1)

SpecTurnOpaque == InitOpaque /\ [][NextTurnOpaque]_vars

\* Successive grants are at least the minimum interval apart.
GrantsSpaced == \A i \in 1..(Len(grants) - 1) : grants[i + 1] - grants[i] >= Delay

\* C4: for wait() calls made one after another, every successive pair of
\* recorded grant timestamps differs by at least the minimum interval.
C4_SequentialGrantsSpaced == GrantsSpaced /\ (Len(grants) > 0 => last_request = grants[Len(grants)])

\* C4 witness: three grants, one taken without sleeping and one exactly one
\* interval after its predecessor (a grant taken straight after a sleep).
C4_Witness ==
    /\ Len(grants) >= 3
    /\ \E i \in 1..(Len(grants) - 1) : grants[i + 1] - grants[i] = Delay
    /\ \E i \in 1..(Len(grants) - 1) : grants[i + 1] - grants[i] > Delay

\* C5: when wait() calls of concurrent coroutines overlap, any two grants
\* are still at least the minimum interval apart.
C5_ConcurrentGrantsSpaced == \A i, j \in 1..Len(grants) : i < j => grants[j] - grants[i] >= Delay

\* C7: when every invocation attempt fails, run_with_optimization makes
\* exactly max_retries attempts (MAX_RETRIES by default), sleeps
\* RETRY_DELAY * 2^k after failed attempt k between attempts, and returns the
\* Fallback result; it never makes more attempts than that.
C7_RetryBound ==
    /\ opt.attempts <= opt.max_retries
    /\ (opt.pc = "returned" /\ ~opt.hit /\ opt.failures = opt.attempts) =>
          /\ opt.attempts = opt.max_retries
          /\ (opt.max_retries = MAX_RETRIES => opt.attempts = MAX_RETRIES)
          /\ opt.sleeps = [k \in 1..(opt.max_retries - 1) |->
                               RETRY_DELAY * (2 ^ (k - 1)) * TicksPerSecond]
          /\ opt.result.kind = "Fallback"

\* C7 witness: a call with the default budget whose MAX_RETRIES attempts all
\* failed has returned the fallback.
C7_Witness ==
    /\ opt.pc = "returned"
    /\ opt.max_retries = MAX_RETRIES
    /\ opt.failures = MAX_RETRIES
    /\ Len(opt.sleeps) = MAX_RETRIES - 1
    /\ opt.result.kind = "Fallback"

\* C8: every invocation attempt of run_with_optimization, retries included,
\* is preceded by its own rate-limiter grant: while an attempt runs and when
\* the call has returned, the grants it consumed equal the attempts it made.
C8_GrantPerAttempt ==
    (opt.pc \in {"running", "returned"} /\ ~opt.hit) => opt.waits = opt.attempts

\* C9: when an unexpired entry exists for the call's key, the call returns
\* the cached response at once, without a rate-limiter grant and without an
\* invocation; last_request and the cache are as they were before the call.
C9_HitBypasses ==
    (opt.pc # "idle" /\ opt.key \in DOMAIN opt.pre_cache
        /\ opt.entered - opt.pre_cache[opt.key].timestamp < TTL) =>
       /\ opt.pc = "returned"
       /\ opt.hit
       /\ opt.result = opt.pre_cache[opt.key].response
       /\ opt.waits = 0
       /\ opt.attempts = 0
       /\ last_request = opt.pre_last
       /\ response_cache = opt.pre_cache

\* C9 witness: a call served from the cache after an earlier call invoked the
\* model and cached its result.
C9_Witness ==
    /\ opt.pc = "returned"
    /\ opt.hit
    /\ opt.result.kind = "Ok"
    /\ prev # NoCall
    /\ last_request > 0

\* C10: a call whose input equals the previous call's input after trimming,
\* whose context agrees with it on the allow-listed fields, and which comes
\* while the previous call's result is still within the TTL, has the same
\* cache key, returns the identical result and leaves last_request as it was.
C10_SameTrimmedInputSameKey ==
    (/\ opt.pc # "idle"
     /\ prev # NoCall
     /\ prev.result.kind = "Ok"
     /\ OptimizeInput(prev.input) = OptimizeInput(opt.input)
     /\ OptimizeContext(prev.context) = OptimizeContext(opt.context)
     /\ prev.key \in DOMAIN opt.pre_cache
     /\ opt.entered - opt.pre_cache[prev.key].timestamp < TTL) =>
       /\ opt.key = prev.key
       /\ opt.pc = "returned"
       /\ opt.result = prev.result
       /\ last_request = opt.pre_last

\* ------------------------------------------------- chat_endpoint claims
Range(seq) == {seq[i] : i \in DOMAIN seq}
HandoffsOf(items) == SelectSeq(items, LAMBDA item : item.type = "handoff")
Normal(t) == turn[t].pc = "done" /\ turn[t].outcome = "normal"

\* C1: after a turn whose primary invocation succeeded, the transcript
\* persisted under the conversation id is the to_input_list of the last
\* successful invocation of the turn: the follow-up's when a follow-up ran
\* and succeeded, else the primary's.
C1_PersistsLastSuccessful ==
    \A t \in Turns : Normal(t) =>
        /\ StoreGet(turn[t].cid) = turn[t].persisted
        /\ turn[t].persisted.input_items =
              IF turn[t].followup_result # None
              THEN turn[t].followup_result.to_input_list
              ELSE turn[t].result.to_input_list

\* C2 as stated: when any item of the primary invocation is a handoff, the
\* current_agent returned and persisted is a handoff's declared target and
\* differs from the agent the turn started with.
C2_HandoffLeavesStartAgent ==
    \A t \in Turns : (Normal(t) /\ HandoffsOf(turn[t].result.new_items) # <<>>) =>
        /\ turn[t].response.current_agent \in
              {h.target : h \in Range(HandoffsOf(turn[t].result.new_items))}
        /\ turn[t].persisted.current_agent = turn[t].response.current_agent
        /\ turn[t].response.current_agent # turn[t].start_agent

\* C2 amended: when any item of the primary invocation is a handoff, the
\* current_agent returned and persisted is the declared target of the last
\* handoff item; it differs from the agent the turn started with when the
\* turn has exactly one handoff item.
C2_LastHandoffTarget ==
    \A t \in Turns : (Normal(t) /\ HandoffsOf(turn[t].result.new_items) # <<>>) =>
        LET hs == HandoffsOf(turn[t].result.new_items) IN
        /\ turn[t].response.current_agent = hs[Len(hs)].target
        /\ turn[t].persisted.current_agent = hs[Len(hs)].target
        /\ StoreGet(turn[t].cid).current_agent = hs[Len(hs)].target
        /\ (Len(hs) = 1 => turn[t].response.current_agent # turn[t].start_agent)

\* C2 witness: a finished turn with two handoff items whose second handoff
\* leads back to the agent the turn started with.
C2_Witness ==
    \E t \in Turns :
        /\ Normal(t)
        /\ Len(HandoffsOf(turn[t].result.new_items)) = 2
        /\ turn[t].response.current_agent = turn[t].start_agent
        /\ turn[t].persisted.current_agent = turn[t].start_agent

\* C3: a turn starts exactly one follow-up invocation, against the new
\* current agent, when the primary result holds at least one handoff item,
\* and none when it holds none.
C3_OneFollowupIffHandoff ==
    \A t \in Turns :
        /\ turn[t].followups <= 1
        /\ Normal(t) =>
              IF HandoffsOf(turn[t].result.new_items) # <<>>
              THEN /\ turn[t].followups = 1
                   /\ turn[t].followup_agent = turn[t].response.current_agent
              ELSE turn[t].followups = 0

\* C3 witness: a finished turn whose primary result held two handoff items
\* and which started one follow-up.
C3_Witness ==
    \E t \in Turns :
        /\ Normal(t)
        /\ Len(HandoffsOf(turn[t].result.new_items)) = 2
        /\ turn[t].followups = 1

\* C6: when two turns on one stored conversation id have both completed,
\* however they overlapped, no update is lost: the stored transcript holds
\* both user messages and the items of both primary results.
C6_NoLostUpdate ==
    \A t \in Turns, u \in Turns :
        (/\ t # u
         /\ Normal(t) /\ Normal(u)
         /\ ~turn[t].is_new /\ ~turn[u].is_new
         /\ turn[t].cid = turn[u].cid) =>
            LET stored == Range(StoreGet(turn[t].cid).input_items) IN
            /\ UserEntry(t, turn[t].req.message) \in stored
            /\ Range(turn[t].result.new_items) \subseteq stored

\* ---------------------------------------- run_with_optimization, failures
\* the transcript a call was given: the list itself, or the one user entry
\* a string stands for
InputTranscript(input) ==
    IF input.kind = "list" THEN input.items
    ELSE <<[role |-> "user", content |-> input.str]>>

\* C11: the Fallback result returned after the retries are exhausted carries
\* the fixed apology message, no produced items, and a to_input_list equal to
\* the input transcript the call was given.
C11_FallbackKeepsTranscript ==
    (opt.pc = "returned" /\ opt.result.kind = "Fallback") =>
        /\ opt.result.final_output = "high demand apology"
        /\ opt.result.new_items = <<>>
        /\ opt.result.to_input_list = InputTranscript(opt.input)

\* no entry of the response cache holds a Fallback result
NoFallbackCached == \A k \in DOMAIN response_cache : response_cache[k].response.kind = "Ok"

\* C12 as stated: the response cache never contains a Fallback result, and
\* a call that failed leaves the cache as it was before the call.
C12_FailedCallLeavesCache ==
    /\ NoFallbackCached
    /\ (opt.pc = "returned" /\ opt.result.kind = "Fallback") => response_cache = opt.pre_cache

\* C12 amended: the response cache never contains a Fallback result; until
\* an invocation succeeds and after a failed call the cache is the cache
\* before the call less the expired entry the call's own lookup evicted; a
\* successful invocation writes its result under the call's key.
C12_NoFallbackCached ==
    LET looked == CacheAfterGet(opt.pre_cache, opt.key, opt.entered) IN
    /\ NoFallbackCached
    /\ (opt.pc \in {"rl_sleep", "running", "backoff"}) => response_cache = looked
    /\ (opt.pc = "returned" /\ opt.result.kind = "Fallback") => response_cache = looked
    /\ (opt.pc = "returned" /\ ~opt.hit /\ opt.result.kind = "Ok") =>
           response_cache = CacheResponse(looked, opt.key, opt.result, now)

\* C12 witness: a call that found an expired entry under its key, failed on
\* every attempt and returned the fallback; the key is no longer cached.
C12_Witness ==
    /\ opt.pc = "returned"
    /\ opt.result.kind = "Fallback"
    /\ opt.failures = MAX_RETRIES
    /\ opt.key \in DOMAIN opt.pre_cache
    /\ opt.key \notin DOMAIN response_cache

\* C13: whatever each attempt does, and for every max_retries >= 0,
\* run_with_optimization returns an Ok or a Fallback result and no failure
\* of the invocation leaves the call as an exception; with no attempt to
\* make it returns the Fallback.
C13_OkOrFallback ==
    /\ opt.pc # "raised"
    /\ opt.pc = "returned" => opt.result.kind \in {"Ok", "Fallback"}
    /\ (opt.pc = "returned" /\ ~opt.hit /\ opt.max_retries = 0) => opt.result.kind = "Fallback"

\* C13 witness: a call that returned Ok after a failed attempt, following a
\* call that returned the Fallback.
C13_Witness ==
    /\ opt.pc = "returned"
    /\ opt.failures >= 1
    /\ opt.result.kind = "Ok"
    /\ prev # NoCall
    /\ prev.result.kind = "Fallback"

\* ------------------------------------------- chat_endpoint, failure paths
Fallen(t) == turn[t].pc = "done" /\ turn[t].outcome = "fallback"
Blank == {"", "  "}
EventsOfType(events, type) == SelectSeq(events, LAMBDA e : e.type = type)

\* C14: a request with an empty or whitespace-only message and no
\* conversation id, or an id with no stored state, returns at once: a fresh
\* conversation with an empty transcript and the triage agent is stored
\* under a fresh id, the response has no messages and no events, and no
\* rate-limiter wait or model invocation is made: last_request is unchanged.
C14_EmptyStartTouchesNothing ==
    \A t \in Turns :
        (turn[t].pc # "idle" /\ turn[t].is_new /\ turn[t].req.message \in Blank) =>
            /\ turn[t].pc = "done"
            /\ turn[t].outcome = "empty"
            /\ turn[t].cid # turn[t].req.conversation_id
            /\ turn[t].cid \in saved
            /\ StoreGet(turn[t].cid).input_items = <<>>
            /\ StoreGet(turn[t].cid).current_agent = Triage
            /\ turn[t].response.conversation_id = turn[t].cid
            /\ turn[t].response.current_agent = Triage
            /\ turn[t].response.messages = <<>>
            /\ turn[t].response.events = <<>>
            /\ turn[t].invocations = 0
            /\ turn[t].followups = 0
            /\ last_request = turn[t].pre_last
            /\ grants = <<>>
            /\ response_cache = <<>>

\* C14 witness: a whitespace-only message sent with an id that has no stored
\* state has been answered with an empty response.
C14_Witness ==
    \E t \in Turns :
        /\ turn[t].pc = "done"
        /\ turn[t].outcome = "empty"
        /\ turn[t].req = [conversation_id |-> "zz", message |-> "  "]
        /\ turn[t].cid \in saved

\* C15: when the primary invocation fails, the response holds exactly one
\* message and exactly one event, both carrying the apology, and reports the
\* current_agent and the context the turn began with.
C15_FallbackOneMessageOneEvent ==
    \A t \in Turns : Fallen(t) =>
        /\ Len(turn[t].response.messages) = 1
        /\ turn[t].response.messages[1].content = ApologyEntry.content
        /\ Len(turn[t].response.events) = 1
        /\ turn[t].response.events[1].content = ApologyEntry.content
        /\ turn[t].response.current_agent = turn[t].start_agent
        /\ turn[t].response.context = turn[t].old_context

\* C16: when the primary invocation fails, the state with the user message
\* and one apology entry appended is stored under the returned conversation
\* id, for a brand-new conversation as for an existing one.
C16_FallbackPersisted ==
    \A t \in Turns : Fallen(t) =>
        /\ turn[t].response.conversation_id \in saved
        /\ LET items == StoreGet(turn[t].response.conversation_id).input_items IN
           /\ Len(items) >= 2
           /\ items[Len(items) - 1] = UserEntry(t, turn[t].req.message)
           /\ items[Len(items)] = ApologyEntry

\* C17: a turn degrades to the apology only after the primary invocation
\* was attempted MAX_RETRIES times: a failure is retried.
C17_TurnRetriesBeforeApology ==
    \A t \in Turns : Fallen(t) => turn[t].invocations = MAX_RETRIES

\* C18: when the follow-up invocation fails, the turn still ends normally:
\* the response holds the messages and events of the primary result's
\* items, current_agent is the handoff target in the response and in the
\* stored state, and the conversation is stored.
C18_FollowupFailureSilent ==
    \A t \in Turns :
        (turn[t].pc = "done" /\ turn[t].followups = 1 /\ turn[t].followup_result = None) =>
            LET items == turn[t].result.new_items
                hs == HandoffsOf(items)
            IN
            /\ turn[t].outcome = "normal"
            /\ Len(turn[t].response.messages) =
                   Len(SelectSeq(items, LAMBDA item : item.type = "message"))
            /\ \A i \in DOMAIN turn[t].response.messages :
                   turn[t].response.messages[i].content = "reply"
            /\ Len(turn[t].response.events) >= Len(items)
            /\ \A i \in DOMAIN items :
                   /\ turn[t].response.events[i].type = items[i].type
                   /\ turn[t].response.events[i].agent = items[i].agent
            /\ turn[t].response.current_agent = hs[Len(hs)].target
            /\ turn[t].cid \in saved
            /\ StoreGet(turn[t].cid) = turn[t].persisted
            /\ turn[t].persisted.current_agent = hs[Len(hs)].target
            /\ turn[t].persisted.input_items = turn[t].result.to_input_list

\* C18 witness: a turn on a new conversation whose follow-up failed after a
\* handoff to the FAQ agent has ended.
C18_Witness ==
    \E t \in Turns :
        /\ turn[t].pc = "done"
        /\ turn[t].is_new
        /\ turn[t].followups = 1
        /\ turn[t].followup_result = None
        /\ turn[t].response.current_agent = FAQ

\* C19: for every field in both the context snapshot taken before the run
\* and the one taken after the follow-up, the field is in the
\* context_update event's metadata.changes, with its new value, iff its
\* value changed; when no field changed there is no context_update event.
C19_ChangesIffChanged ==
    \A t \in Turns : Normal(t) =>
        LET old == turn[t].old_context
            new == turn[t].response.context
            both == DOMAIN old \cap DOMAIN new
            ups == EventsOfType(turn[t].response.events, "context_update")
        IN
        /\ Len(ups) <= 1
        /\ (\A f \in both : old[f] = new[f]) => ups = <<>>
        /\ \A f \in both :
              /\ (ups # <<>> /\ f \in DOMAIN ups[1].metadata.changes) <=> old[f] # new[f]
              /\ old[f] # new[f] => ups[1].metadata.changes[f] = new[f]

\* C19 witness: a turn whose run changed passenger_name alone has ended with
\* a context_update event.
C19_Witness ==
    \E t \in Turns :
        /\ Normal(t)
        /\ turn[t].response.context.passenger_name # turn[t].old_context.passenger_name
        /\ turn[t].response.context.account_number = turn[t].old_context.account_number
        /\ EventsOfType(turn[t].response.events, "context_update") # <<>>

\* C20: when a handoff item names a target that is not registered, the
\* handoff event is still recorded but the switch is omitted: current_agent
\* in the response and in the stored state is the target of the last
\* handoff to a registered agent, or the agent the turn began with.
C20_UnregisteredTargetFailsClosed ==
    \A t \in Turns :
        (Normal(t) /\ \E h \in Range(HandoffsOf(turn[t].result.new_items)) :
                          h.target \notin Registered) =>
            LET hs == HandoffsOf(turn[t].result.new_items)
                known == SelectSeq(hs, LAMBDA h : h.target \in Registered)
                kept == IF known = <<>> THEN turn[t].start_agent ELSE known[Len(known)].target
            IN
            /\ Len(EventsOfType(turn[t].response.events, "handoff")) = Len(hs)
            /\ turn[t].response.current_agent = kept
            /\ StoreGet(turn[t].cid).current_agent = kept

C22_UnknownNameRoutesToTriage ==
    \A t \in Turns :
        (turn[t].pc # "idle" /\ ~turn[t].is_new /\ turn[t].stored_agent \notin Registered) =>
            /\ turn[t].start_agent = Triage
            /\ turn[t].pc = "done" =>
                  /\ turn[t].outcome \in {"normal", "fallback"}
                  /\ turn[t].response # None
            /\ (Normal(t) /\ HandoffsOf(turn[t].result.new_items) = <<>>) =>
                  /\ turn[t].response.current_agent = Triage
                  /\ StoreGet(turn[t].cid).current_agent = Triage

\* C22 witness: a turn on a conversation stored with an unregistered name
\* has ended normally on the triage agent.
C22_Witness ==
    \E t \in Turns :
        /\ Normal(t)
        /\ turn[t].stored_agent = Unregistered
        /\ turn[t].response.current_agent = Triage
        /\ turn[t].response.messages # <<>>

\* C27: an empty or whitespace-only message sent to an existing
\* conversation takes the normal path: the user entry is appended to the
\* transcript, the first invocation starts on one rate-limiter grant, and
\* the turn does not end as an empty start.
C27_BlankOnExistingRuns ==
    \A t \in Turns :
        (turn[t].pc # "idle" /\ ~turn[t].is_new /\ turn[t].req.message \in Blank) =>
            /\ turn[t].outcome # "empty"
            /\ turn[t].pc = "rl_sleep" =>
                  /\ turn[t].invocations = 0
                  /\ grants = <<>>
                  /\ conv[turn[t].cid].input_items[Len(conv[turn[t].cid].input_items)] =
                         UserEntry(t, turn[t].req.message)
            /\ turn[t].pc = "running" =>
                  /\ turn[t].invocations = 1
                  /\ Len(grants) = 1
                  /\ turn[t].run_input[Len(turn[t].run_input)] = UserEntry(t, turn[t].req.message)
            /\ turn[t].pc \in {"followup_sleep", "followup_running", "done"} =>
                  turn[t].invocations = 1
            /\ Normal(t) => UserEntry(t, turn[t].req.message) \in Range(turn[t].persisted.input_items)

\* C27 witness: a whitespace-only message on the stored conversation has
\* been answered by the model.
C27_Witness ==
    \E t \in Turns :
        /\ Normal(t)
        /\ turn[t].req = [conversation_id |-> "c1", message |-> "  "]
        /\ turn[t].response.messages # <<>>
        /\ Len(grants) >= 1

\* ------------------------------------------- chat_endpoint, classification
ItemsOfType(items, type) == SelectSeq(items, LAMBDA item : item.type = type)
NotContextUpdate(events) == SelectSeq(events, LAMBDA e : e.type # "context_update")
\* the items of the turn's invocations that returned, primary then follow-up
ProducedItems(t) ==
    turn[t].result.new_items \o
        (IF turn[t].followup_result # None THEN turn[t].followup_result.new_items ELSE <<>>)

\* C23: every produced item of an invocation, primary or follow-up,
\* contributes exactly one event of its own type, a handoff at most one
\* synthetic tool_call event more, and every item at most one message.
C23_OneEventPerItem ==
    \A t \in Turns : Normal(t) =>
        LET items == ProducedItems(t)
            events == NotContextUpdate(turn[t].response.events)
        IN
        /\ \A type \in {"message", "handoff", "tool_output"} :
               Len(EventsOfType(events, type)) = Len(ItemsOfType(items, type))
        /\ Len(EventsOfType(events, "tool_call")) >= Len(ItemsOfType(items, "tool_call"))
        /\ Len(EventsOfType(events, "tool_call")) <=
               Len(ItemsOfType(items, "tool_call")) + Len(ItemsOfType(items, "handoff"))
        /\ Len(events) >= Len(items)
        /\ Len(turn[t].response.messages) <= Len(items)

\* C24: the items of the follow-up invocation are classified by the rules
\* of the primary invocation: the turn's messages and events are what the
\* primary loop gives for the primary items and then for the follow-up items.
C24_FollowupClassifiedAsPrimary ==
    \A t \in Turns : (Normal(t) /\ turn[t].followup_result # None) =>
        LET primary == ClassifyItems([messages |-> <<>>, events |-> <<>>,
                                      current_agent |-> turn[t].start_agent,
                                      handed_off |-> FALSE], turn[t].result.new_items)
            both == ClassifyItems(primary, turn[t].followup_result.new_items)
        IN
        /\ turn[t].response.messages = both.messages
        /\ NotContextUpdate(turn[t].response.events) = both.events

\* keep the first entry and the most recent N-1
KeepFirstAndRecent(seq) ==
    IF Len(seq) > MAX_CONVERSATION_HISTORY
    THEN <<seq[1]>> \o SubSeq(seq, Len(seq) - MAX_CONVERSATION_HISTORY + 2, Len(seq))
    ELSE seq

\* C29: every transcript chat_endpoint passes to the model, in the primary
\* and in the follow-up invocation, has at most MAX_CONVERSATION_HISTORY
\* entries: the first entry of the conversation's transcript and its most
\* recent N-1.
C29_RunInputTrimmedAsOptimizeInput ==
    \A t \in Turns : turn[t].pc \in {"running", "followup_running"} =>
        /\ Len(turn[t].run_input) <= MAX_CONVERSATION_HISTORY
        /\ turn[t].run_input = KeepFirstAndRecent(conv[turn[t].cid].input_items)

\* C30: the follow-up invocation is passed the full updated transcript: the
\* transcript with what the primary invocation produced, holding this
\* turn's user message exactly once.
C30_FollowupGetsUpdatedTranscript ==
    \A t \in Turns : turn[t].pc = "followup_running" =>
        /\ turn[t].run_input = turn[t].result.to_input_list
        /\ Range(turn[t].result.new_items) \subseteq Range(turn[t].run_input)
        /\ Len(SelectSeq(turn[t].run_input,
                          LAMBDA e : e = UserEntry(t, turn[t].req.message))) = 1

\* ------------------------------------------------- cache, trimming, trips
\* a read of a key that had an entry: the entry's age at the read
Age == lookup.at - lookup.before[lookup.key].timestamp
ReadOfEntry == lookup.kind = "get" /\ lookup.key \in DOMAIN lookup.before

\* C25 as stated: a read returns the value written and keeps the entry as
\* long as the entry's age does not exceed CACHE_TTL; a read at a greater
\* age returns nothing and removes the entry; a key without an entry misses.
C25_KeptThroughTTL ==
    /\ ReadOfEntry =>
          IF Age <= TTL
          THEN /\ lookup.result = lookup.before[lookup.key].response
               /\ response_cache = lookup.before
          ELSE /\ lookup.result = None
               /\ response_cache = Without(lookup.before, lookup.key)
    /\ (lookup.kind = "get" /\ lookup.key \notin DOMAIN lookup.before) =>
          lookup.result = None /\ response_cache = lookup.before

\* C25 amended: a read returns the value written and keeps the entry as
\* long as the entry's age is less than CACHE_TTL; a read at an age of
\* CACHE_TTL or more returns nothing and removes the entry, so that later
\* reads find no entry and miss until the key is written again.
C25_KeptBelowTTL ==
    /\ ReadOfEntry =>
          IF Age < TTL
          THEN /\ lookup.result = lookup.before[lookup.key].response
               /\ response_cache = lookup.before
          ELSE /\ lookup.result = None
               /\ response_cache = Without(lookup.before, lookup.key)
    /\ (lookup.kind = "get" /\ lookup.key \notin DOMAIN lookup.before) =>
          lookup.result = None /\ response_cache = lookup.before
    /\ lookup.kind = "put" =>
          /\ response_cache[lookup.key].timestamp = lookup.at
          /\ \A k \in DOMAIN lookup.before \ {lookup.key} :
                k \in DOMAIN response_cache /\ response_cache[k] = lookup.before[k]

\* C25 witness: a read at an age of exactly CACHE_TTL missed and removed
\* the entry while the entry of the other key stayed.
C25_Witness ==
    /\ ReadOfEntry
    /\ Age = TTL
    /\ lookup.result = None
    /\ lookup.key \notin DOMAIN response_cache
    /\ DOMAIN response_cache # {}

\* C26: after cancel_upcoming_trip_or_booking(ref) returned True the trip's
\* stored status is CANCELLED, get_trip_by_reference(ref) reports it, and
\* every later cancel of ref returns False.
C26_CancelledStaysCancelled ==
    /\ \A i \in DOMAIN cancels : cancels[i].returned =>
          /\ df.status[cancels[i].ref] = "CANCELLED"
          /\ GetTripByReference(df, cancels[i].ref).status = "CANCELLED"
    /\ \A i, j \in DOMAIN cancels :
          (i < j /\ cancels[i].ref = cancels[j].ref /\ cancels[i].returned) =>
              ~cancels[j].returned

\* C28: _optimize_input applied to a transcript list returns at most
\* MAX_CONVERSATION_HISTORY entries, the first entry and the most recent N-1
\* in order, and no entry's text is longer than MAX_CONTEXT_LENGTH.
C28_TrimmedAndTruncated ==
    (opt.pc = "optimized" /\ opt.input.kind = "list") =>
        LET kept == KeepFirstAndRecent(opt.input.items)
            out == opt.result.items
        IN
        /\ Len(out) <= MAX_CONVERSATION_HISTORY
        /\ Len(out) = Len(kept)
        /\ \A i \in DOMAIN out :
              /\ out[i].role = kept[i].role
              /\ out[i].content.text = kept[i].content.text
              /\ out[i].content.len <= MAX_CONTEXT_LENGTH

\* ------------------------------------------- chat_endpoint, tool calls
\* the tool_call event and the sentinel message the claim gives for a
\* tool_call item
ToolCallEventOf(item) ==
    AgentEvent("tool_call", item.agent, item.name,
               [tool_args |-> IF item.arguments.valid
                              THEN [parsed |-> item.arguments.raw]
                              ELSE item.arguments])
SentinelOf(item) == MessageResponse("DISPLAY_SEAT_MAP", item.agent)
MapSeq(Op(_), seq) == [i \in DOMAIN seq |-> Op(seq[i])]

EventOf(item) ==
    IF item.type = "message" THEN AgentEvent("message", item.agent, item.text, None)
    ELSE IF item.type = "handoff"
    THEN AgentEvent("handoff", item.agent, <<item.agent, "->", item.target>>,
                    [source_agent |-> item.agent, target_agent |-> item.target])
    ELSE IF item.type = "tool_call" THEN ToolCallEventOf(item)
    ELSE AgentEvent("tool_output", item.agent, item.output, [tool_result |-> item.output])
MessageOf(item) ==
    IF item.type = "message" THEN MessageResponse(item.text, item.agent) ELSE SentinelOf(item)
\* the produced items that have an event, primary then follow-up: the
\* follow-up loop passes over a handoff item
ItemsWithEvent(t) ==
    turn[t].result.new_items \o
        (IF turn[t].followup_result # None
         THEN SelectSeq(turn[t].followup_result.new_items, LAMBDA item : item.type # "handoff")
         ELSE <<>>)

\* C32: in every response the events are those of the primary
\* invocation's items in produced order, then those of the follow-up's
\* items in produced order, then at most one context_update event, which
\* is last and carries the response's current_agent; the messages are in
\* produced-item order as well.
C32_EventsInProducedOrder ==
    \A t \in Turns : (turn[t].pc = "done" /\ turn[t].response # None) =>
        LET events == turn[t].response.events
            items == IF turn[t].result # None THEN ItemsWithEvent(t) ELSE <<>>
            n == Len(items)
        IN
        /\ Len(events) \in {n, n + 1}
        /\ SubSeq(events, 1, n) = MapSeq(EventOf, items)
        /\ \A i \in DOMAIN events :
              (events[i].type = "context_update" \/ i = n + 1) =>
                  /\ i = Len(events)
                  /\ i = n + 1
                  /\ events[i].type = "context_update"
                  /\ events[i].agent = turn[t].response.current_agent
        /\ Normal(t) =>
              turn[t].response.messages =
                  MapSeq(MessageOf,
                         SelectSeq(items, LAMBDA item :
                             \/ item.type = "message"
                             \/ item.type = "tool_call" /\ item.name = "display_seat_map"))

\* C32 witness: a turn has ended whose primary run handed off and whose
\* follow-up run wrote the context: the response holds the handoff event,
\* the follow-up's events and the context_update event.
C32_Witness ==
    \E t \in Turns :
        /\ Normal(t)
        /\ turn[t].followup_result # None
        /\ Len(turn[t].response.events) >= 5
        /\ turn[t].response.events[1].type = "handoff"
        /\ turn[t].response.events[Len(turn[t].response.events)].type = "context_update"
        /\ turn[t].response.current_agent # turn[t].start_agent

\* ------------------------------------------- chat_endpoint, conversation ids
\* turn t enters chat_endpoint in this step
Enters(t) == turn[t].pc = "idle" /\ turn'[t].pc # "idle"
\* turn t saves in this step
Saves(t) == turn[t].persisted = None /\ turn'[t].persisted # None

\* what a step of a turn does with conversation ids
IdKeptOrAllocated ==
    \A t \in Turns :
        /\ Enters(t) =>
              LET rcid == turn'[t].req.conversation_id
                  cid == turn'[t].cid
              IN
              IF rcid \in saved
              THEN cid = rcid /\ ~turn'[t].is_new
              ELSE /\ turn'[t].is_new
                   /\ cid # rcid
                   /\ cid \notin saved
                   /\ cid # NoId
                   /\ conv'[cid].context = InitialContext
                   /\ conv'[cid].current_agent = Triage
                   /\ turn'[t].start_agent = Triage
                   /\ \A id \in saved : id \in saved' /\ conv'[id] = conv[id]
        /\ Saves(t) =>
              /\ turn'[t].cid \in saved'
              /\ conv'[turn'[t].cid] = turn'[t].persisted
              /\ turn'[t].is_new => turn'[t].cid \notin saved
              /\ \A id \in saved \ {turn'[t].cid} : id \in saved' /\ conv'[id] = conv[id]
        /\ turn'[t].response # None => turn'[t].response.conversation_id = turn'[t].cid

\* C33: a request whose id is stored is served under that id; a request
\* whose id is absent or not stored is given an id that is neither the
\* supplied one nor one in the store, with a fresh context and the triage
\* agent; the response and the save carry the turn's id, and a save of a
\* new conversation never writes over a stored one.
C33_KeepsOrAllocatesId == [][IdKeptOrAllocated]_vars

\* C33 witness: a request without an id was given the id n1 and stored
\* under it beside the conversation that was there, and a later request
\* with that id has been answered and stored under the same id.
C33_Witness ==
    /\ saved = {"c1", "n1"}
    /\ \E t, u \in Turns :
          /\ Normal(t) /\ turn[t].is_new
          /\ turn[t].req.conversation_id = NoId
          /\ turn[t].cid = "n1"
          /\ Normal(u) /\ ~turn[u].is_new
          /\ turn[u].req.conversation_id = "n1"
          /\ turn[u].response.conversation_id = "n1"
          /\ conv["n1"] = turn[u].persisted

\* ------------------------------------------- chat_endpoint, isolation
\* turn t takes this step
Steps(t) == turn'[t] # turn[t]

\* C34: a step of a turn on conversation id A, whatever other turns are
\* in progress, leaves the transcript, context and current_agent of every
\* other conversation id B as they were, and B stored if it was.
C34_OtherConversationsUntouched ==
    [][\A t \in Turns : Steps(t) =>
          \A B \in ConvIds \ {turn'[t].cid} :
              /\ conv'[B] = conv[B]
              /\ B \in saved' <=> B \in saved]_vars

\* C34 witness: two turns on different ids that began before either was
\* granted the limiter have both ended, one of them after a handoff, and
\* each conversation holds what its own turn saved.
C34_Witness ==
    \E t, u \in Turns :
        /\ Normal(t) /\ Normal(u)
        /\ turn[t].cid = "c1" /\ turn[u].cid = "n1"
        /\ turn[t].pre_last = 0 /\ turn[u].pre_last = 0
        /\ turn[t].handed_off /\ ~turn[u].handed_off
        /\ conv["c1"] = turn[t].persisted
        /\ conv["n1"] = turn[u].persisted
        /\ conv["c1"].current_agent # conv["n1"].current_agent

\* ------------------------------------------- chat_endpoint, persistence
\* C35: the stored state of a conversation changes only in the step in
\* which a turn saves: while a turn is suspended in the rate limiter or in
\* a model invocation conversation_store.get still gives the transcript
\* from before the turn, and a turn that ends without a save leaves the
\* stored transcript as it was.
C35_StoredChangesOnlyAtSave ==
    [][(\A t \in Turns : ~Saves(t)) =>
          \A id \in saved : StoreGet(id).input_items' = StoreGet(id).input_items]_vars

\* ------------------------------------------- chat_endpoint, termination
\* the place of a turn's position in the order of chat_endpoint
Rank(pc) ==
    CASE pc = "idle" -> 0
      [] pc = "rl_sleep" -> 1
      [] pc = "running" -> 2
      [] pc = "followup_sleep" -> 3
      [] pc = "followup_running" -> 4
      [] pc = "done" -> 5
\* the model invocations a turn has started
InvocationsOf(t) == turn[t].invocations + turn[t].followups

\* C36: a turn that has begun ends, whatever the model invocations do; each
\* of its steps moves it forward in the order of its states; it starts at
\* most one primary and one follow-up invocation, and each start of an
\* invocation comes with exactly one rate-limiter grant, taken in that step
\* or when the turn left its sleep.
C36_TurnTerminatesLinearly ==
    /\ [](\A t \in Turns :
            /\ turn[t].invocations <= 1
            /\ turn[t].followups <= 1
            /\ turn[t].followups = 1 => turn[t].invocations = 1
            /\ turn[t].pc \in {"running", "followup_sleep"} => InvocationsOf(t) = 1
            /\ turn[t].pc = "followup_running" => InvocationsOf(t) = 2)
    /\ [](Len(grants) = InvocationsOf("t1") + InvocationsOf("t2"))
    /\ [][\A t \in Turns : Steps(t) =>
              /\ Rank(turn'[t].pc) > Rank(turn[t].pc)
              /\ InvocationsOf(t)' \in {InvocationsOf(t), InvocationsOf(t) + 1}
              /\ InvocationsOf(t)' = InvocationsOf(t) + 1 =>
                     /\ grants' = Append(grants, now')
                     /\ last_request' = now']_vars
    /\ \A t \in Turns : (turn[t].pc # "idle") ~> (turn[t].pc = "done")

\* C36 witness: a turn has ended after a primary and a follow-up
\* invocation, both begun after a sleep in the rate limiter, on two grants.
C36_Witness ==
    \E t \in Turns :
        /\ Normal(t)
        /\ turn[t].invocations = 1 /\ turn[t].followups = 1
        /\ turn[t].followup_result # None
        /\ Len(grants) = 2
        /\ grants[2] - grants[1] = Delay

\* ------------------------------------------------- tools and the cache
\* C37: a lookup_trip_data call, served from the cache or not, returns the
\* response the tool computes from the trip data for its arguments.
C37_CachedEqualsComputed ==
    tool.pc = "returned" =>
        tool.result = TripLookupResponse(df, tool.booking_reference, tool.traveler_name)

\* ------------------------------------------------- ContextManager
\* C39: conversation_history holds at most max_history entries: the most
\* recently added messages since the last clear_history, in the order in
\* which they were added.
C39_HistoryIsRecentWindow ==
    LET history == cm.conversation_history
        k == Len(history)
        n == Len(cm.added)
    IN
    /\ k <= cm.max_history
    /\ k = (IF n <= cm.max_history THEN n ELSE cm.max_history)
    /\ \A i \in 1..k : history[i] = cm.added[n - k + i]

\* C39 witness: after a clear_history, more than max_history messages
\* have been added and the oldest of them are gone.
C39_Witness ==
    /\ Len(cm.added) > cm.max_history
    /\ cm.added[1].timestamp > 1
    /\ Len(cm.conversation_history) = cm.max_history
    /\ cm.conversation_history[1] # cm.added[1]

====
